---- MODULE Spec2Model ----
(***************************************************************************)
(* AlgoVault backend: the persistence / schema-migration layer, the        *)
(* readiness gate of main(), the auth guard and the content handlers,      *)
(* modelled over both engines (embedded SQLite and client/server           *)
(* PostgreSQL).                                                             *)
(*                                                                         *)
(* Strings the code manipulates character by character (SQL texts, email   *)
(* addresses) are sequences of one-character strings.  Identifiers made by *)
(* generateID() are "id1", "id2", ... for content rows and "user1", ...    *)
(* for users, drawn from counters, so that no identifier is handed out     *)
(* twice.                                                                  *)
(*                                                                         *)
(* The specifications share the actions: Spec (every handler, the          *)
(* initialization and restarts, clock readings all equal), SpecClock (the  *)
(* problem and solution handlers with the clock advancing), SpecConvert    *)
(* (the placeholder translator applied on its own), SpecAuth (requests     *)
(* taken header by header through the gate and the auth guard),            *)
(* SpecContent (the list, get and update handlers with the clock           *)
(* advancing), SpecMigrate (starts on stores of earlier versions),         *)
(* SpecSeed (seeding over restarts), SpecRace and SpecUpsert (Register and *)
(* UpdateProblem taken statement by statement, two calls at a time),       *)
(* SpecPayload (payloads with two solutions), SpecLookup (Login over       *)
(* stored emails with spaces and capitals), SpecClear (ClearAllData and    *)
(* its failures) and SpecLive (fair scheduling of the initialization and   *)
(* the responses).                                                         *)
(***************************************************************************)
EXTENDS Integers, Sequences, FiniteSets, TLC

\* ------------------------------------------------------------------ bounds
MaxIds      == 4   \* identifiers generateID() makes for content rows
MaxUsers    == 1   \* users who register
MaxTime     == 1   \* readings of the wall clock are 0..MaxTime
MaxRestarts == 1   \* process restarts against the same store
MaxQueryLen == 4   \* length of the SQL texts given to the translator alone
MaxSols     == 1   \* solutions in the payload of one request
MaxSeed     == 1   \* seeded learning topics that are modelled
MaxCalls    == 2   \* handler calls in progress at the same time

\* ------------------------------------------------------- program constants
SQLiteMaxOpenConns   == 1
PostgresMaxOpenConns == 10
MaxParams            == 14   \* markers of the longest statement (INSERT INTO problems)

DemoUserID   == "demo-user-001"
DemoEmail    == <<"d">>                 \* stands for demo@algovault.com
DemoPassword == "demo123"
TopicSlugs   == <<"lld", "hld", "docker", "k8s", "golang", "behavioral", "linux">>
SeedTopics   == SubSeq(TopicSlugs, 1, MaxSeed)   \* the seeded slugs that are modelled

Null  == "NULL"      \* SQL NULL
NoCol == "<nocol>"   \* value of a column the table does not have (yet)
Nil   == "<nil>"     \* Go nil / no value

\* ------------------------------------------------------------- input sets
Languages  == {"cpp", "go"}
Codes      == {"c1", "c2"}
Data       == {"v1"}       \* the free-text fields of a payload, as one value
Passwords  == {"pw"}
LegacyEmail == <<"b">>
RegEmails  == {<<"D">>, <<"A">>}
LoginEmails == {<<"d">>, <<"D">>, <<"a">>, <<"A">>}
QueryChars == {"?", "a", "1"}
NoToken    == [userID |-> Nil, role |-> ""]
Idle       == [op |-> "idle"]
NoCalls    == [g \in 1..MaxCalls |-> Idle]

VARIABLES
    isPostgres,   \* Database.IsPostgres: DATABASE_URL was set
    tablesExist,  \* the store has the tables of InitSchema
    roleCols,     \* number of columns named role in users
    theoryCols,   \* number of columns named theory in patterns
    users, categories, patterns, problems, solutions, topics,   \* the rows
    pc,           \* position of the initialization goroutine of main()
    openRows,     \* result sets the initialization goroutine holds unclosed
    leaked,       \* connections held for ever by request goroutines that hang
    dbReady,      \* main(): dbReady
    handlersDB,   \* main(): handlers.DB is non-nil
    restarts,     \* process restarts so far
    nextId,       \* identifiers generateID() has made for content rows
    nextUser,     \* identifiers generateID() has made for users
    now,          \* last reading of the wall clock
    tokens,       \* bearer tokens issued so far (JWT claims)
    resp,         \* the response being written, NoResp between requests
    query, result, \* the translator applied on its own: input and output
    calls         \* handler calls between two of their statements, by goroutine

store == <<tablesExist, roleCols, theoryCols, users, categories, patterns,
           problems, solutions, topics>>
proc  == <<pc, openRows, leaked, dbReady, handlersDB, restarts>>
conv  == <<query, result>>
vars  == <<isPostgres, store, proc, nextId, nextUser, now, tokens, resp, conv, calls>>

\* ------------------------------------------------------ placeholder translator
RECURSIVE Digits(_)
\* fmt.Sprintf("%d", n) for n >= 0, as a sequence of characters
Digits(n) ==
    LET d == <<"0", "1", "2", "3", "4", "5", "6", "7", "8", "9">>[(n % 10) + 1]
    IN  IF n < 10 THEN <<d>> ELSE Digits(n \div 10) \o <<d>>

RECURSIVE ConvertLoop(_, _, _, _)
\* the for loop of convertPlaceholders: i is the 1-based index of query[i-1]
ConvertLoop(q, i, placeholderNum, res) ==
    IF i > Len(q) THEN res
    ELSE IF q[i] = "?"
         THEN ConvertLoop(q, i + 1, placeholderNum + 1,
                          res \o <<"$">> \o Digits(placeholderNum))
         ELSE ConvertLoop(q, i + 1, placeholderNum, res \o <<q[i]>>)

\* convertPlaceholders with placeholderNum starting at 0 instead of 1
convertPlaceholders_from0(pg, q) ==
    IF ~pg THEN q ELSE ConvertLoop(q, 1, 0, <<>>)

\* Database.convertPlaceholders, with d.IsPostgres = pg
convertPlaceholders(pg, q) ==
    IF ~pg THEN q ELSE ConvertLoop(q, 1, 1, <<>>)

\* a parameterized SQL text with n parameter markers, as the handlers write it
SQL(n) == [i \in 1..(2 * n) |-> IF i % 2 = 1 THEN "a" ELSE "?"]

HasMarker(text) == \E i \in 1..Len(text) : text[i] = "?"

\* PostgreSQL rejects a text that still holds a '?' marker (syntax error);
\* SQLite accepts '?' markers
EngineAccepts(text) == isPostgres => ~HasMarker(text)

\* a statement of n parameters, translated by the caller before execution
Prepared(n) == EngineAccepts(convertPlaceholders(isPostgres, SQL(n)))

\* ------------------------------------------------------------ email helpers
LowerChar(c) == CASE c = "D" -> "d" [] c = "A" -> "a" [] c = "B" -> "b" [] OTHER -> c
ToLower(s) == [i \in 1..Len(s) |-> LowerChar(s[i])]

RECURSIVE TrimSpace(_)
TrimSpace(s) ==
    IF s = <<>> THEN s
    ELSE IF Head(s) = " " THEN TrimSpace(Tail(s))
    ELSE IF s[Len(s)] = " " THEN TrimSpace(SubSeq(s, 1, Len(s) - 1))
    ELSE s

\* ------------------------------------------------------------- the engine
\* sql.Open(...): db.SetMaxOpenConns
MaxOpenConns == IF isPostgres THEN PostgresMaxOpenConns ELSE SQLiteMaxOpenConns

\* the SQLite DSN is "?_journal_mode=WAL&_busy_timeout=5000": foreign keys are
\* not switched on, and SQLite leaves them off; PostgreSQL always enforces them
FKEnforced == isPostgres

ConnFree == openRows + leaked < MaxOpenConns

IdOf(n) == "id" \o ToString(n)
UserIdOf(n) == "user" \o ToString(n)

\* time.Now(): the clock does not go back; two readings may or may not differ
Clock(t) == {u \in {t, t + 1} : u <= MaxTime}

\* ---------------------------------------------------------------- rows
UserRow(id, email, role, pw) == [id |-> id, email |-> email, role |-> role, password |-> pw]
LegacyUser == UserRow("legacy-user", LegacyEmail, NoCol, "pw")
DemoUser   == UserRow(DemoUserID, DemoEmail, "demo", DemoPassword)
NoResp     == [op |-> "none", caller |-> Nil, status |-> 0, id |-> Nil, replaced |-> {}]
Range(f)   == {f[i] : i \in DOMAIN f}

\* ----------------------------------------------------------------- Init
\* The process has just started (sql.Open and Ping succeeded).  The store is
\* either new (no tables) or one left by an earlier version of the program:
\* its tables exist, users may lack the role column and patterns the theory
\* column, and it may hold a user who registered then.
Init ==
    /\ isPostgres \in BOOLEAN
    /\ tablesExist \in BOOLEAN
    /\ roleCols \in (IF tablesExist THEN {0, 1} ELSE {0})
    /\ theoryCols \in (IF tablesExist THEN {0, 1} ELSE {0})
    /\ users \in (IF tablesExist
                  THEN {{}, {[LegacyUser EXCEPT !.role = IF roleCols = 0 THEN NoCol ELSE "admin"]}}
                  ELSE {{}})
    /\ categories = {} /\ patterns = {} /\ problems = {} /\ solutions = {}
    /\ topics = {}
    /\ pc = "InitSchema"
    /\ openRows = 0 /\ leaked = 0
    /\ dbReady = FALSE /\ handlersDB = FALSE
    /\ restarts = 0
    /\ nextId = 0 /\ nextUser = 0
    /\ now \in {0, MaxTime}
    /\ tokens = {}
    /\ resp = NoResp
    /\ query = <<>> /\ result = <<>>
    /\ calls = NoCalls

\* ------------------------------------------------- NewDatabase, step by step
\* InitSchema: CREATE TABLE IF NOT EXISTS ... / CREATE INDEX IF NOT EXISTS ...
InitSchema ==
    /\ pc = "InitSchema"
    /\ IF tablesExist
       THEN UNCHANGED <<tablesExist, roleCols, theoryCols>>
       ELSE tablesExist' = TRUE /\ roleCols' = 1 /\ theoryCols' = 1
    /\ pc' = "MigrateRole"
    /\ UNCHANGED <<isPostgres, users, categories, patterns, problems, solutions, topics,
                   openRows, leaked, dbReady, handlersDB, restarts,
                   nextId, nextUser, now, tokens, resp, conv, calls>>

\* migrate adding the role column without a default and without the UPDATE
\* that follows: the rows that were there hold NULL
MigrateRole_noBackfill ==
    /\ pc = "MigrateRole"
    /\ ConnFree
    /\ LET columnExists == roleCols > 0 IN
       /\ openRows' = IF ~isPostgres /\ columnExists THEN openRows + 1 ELSE openRows
       /\ IF columnExists
          THEN UNCHANGED <<roleCols, users>>
          ELSE /\ roleCols' = roleCols + 1
               /\ users' = {[u EXCEPT !.role = Null] : u \in users}
    /\ pc' = "MigrateTheory"
    /\ UNCHANGED <<isPostgres, tablesExist, theoryCols, categories, patterns, problems,
                   solutions, topics, leaked, dbReady, handlersDB, restarts,
                   nextId, nextUser, now, tokens, resp, conv, calls>>

\* migrate, up to its second introspection query.  On SQLite the PRAGMA result
\* set is closed only when rows.Next() has returned false (the column was not
\* found) or when migrate returns (defer rows.Close()): a break out of the loop
\* leaves it open, holding its connection.
MigrateRole ==
    /\ pc = "MigrateRole"
    /\ ConnFree
    /\ LET columnExists == roleCols > 0 IN
       /\ openRows' = IF ~isPostgres /\ columnExists THEN openRows + 1 ELSE openRows
       /\ IF columnExists
          THEN UNCHANGED <<roleCols, users>>
          ELSE /\ roleCols' = roleCols + 1        \* ALTER TABLE users ADD COLUMN role
               /\ users' = {[u EXCEPT !.role = IF u.role \in {NoCol, Null} THEN "admin" ELSE u.role]
                            : u \in users}
    /\ pc' = "MigrateTheory"
    /\ UNCHANGED <<isPostgres, tablesExist, theoryCols, categories, patterns, problems,
                   solutions, topics, leaked, dbReady, handlersDB, restarts,
                   nextId, nextUser, now, tokens, resp, conv, calls>>

\* migrate, from its second introspection query to its return: the query needs
\* a connection of the pool; the deferred Close calls run at the return.
MigrateTheory ==
    /\ pc = "MigrateTheory"
    /\ ConnFree
    /\ LET theoryColumnExists == theoryCols > 0 IN
       IF theoryColumnExists
       THEN UNCHANGED <<theoryCols, patterns>>
       ELSE /\ theoryCols' = theoryCols + 1       \* ALTER TABLE patterns ADD COLUMN theory
            /\ patterns' = {[p EXCEPT !.theory = IF p.theory = NoCol THEN "" ELSE p.theory]
                            : p \in patterns}
    /\ openRows' = 0
    /\ pc' = "CreateDemoUser"
    /\ UNCHANGED <<isPostgres, tablesExist, roleCols, users, categories, problems,
                   solutions, topics, leaked, dbReady, handlersDB, restarts,
                   nextId, nextUser, now, tokens, resp, conv, calls>>

\* createDemoUser returning without inserting the demo user
createDemoUser_skip ==
    /\ pc = "CreateDemoUser"
    /\ pc' = "SeedLearningData"
    /\ UNCHANGED <<isPostgres, store, openRows, leaked, dbReady, handlersDB,
                   restarts, nextId, nextUser, now, tokens, resp, conv, calls>>

\* createDemoUser: check-then-insert keyed on the email
createDemoUser ==
    /\ pc = "CreateDemoUser"
    /\ Prepared(1) /\ Prepared(5)
    /\ IF \E u \in users : u.email = DemoEmail
       THEN UNCHANGED users
       ELSE users' = users \cup {DemoUser}
    /\ pc' = "SeedLearningData"
    /\ UNCHANGED <<isPostgres, tablesExist, roleCols, theoryCols, categories, patterns,
                   problems, solutions, topics, openRows, leaked, dbReady, handlersDB,
                   restarts, nextId, nextUser, now, tokens, resp, conv, calls>>

\* a learning_topics row of seedLearningData, inserted at clock reading t
TopicRow(slug, t) == [id |-> "topic-" \o slug, slug |-> slug, created_at |-> t]

\* the loop of seedLearningData over the topics slugs, at clock reading t: a
\* topic is inserted when SELECT EXISTS finds no row with its slug
Seeded(rows, slugs, t) ==
    rows \cup {TopicRow(s, t) : s \in {s \in slugs : ~\E r \in rows : r.slug = s}}

\* seedLearningData inserting every topic without looking for its slug, into
\* a table without the UNIQUE constraint
seedLearningData_noCheck ==
    /\ pc = "SeedLearningData"
    /\ topics' = topics \cup {[id |-> "topic-" \o s, slug |-> s, created_at |-> now]
                              : s \in Range(SeedTopics)}
    /\ pc' = "Publish"
    /\ UNCHANGED <<isPostgres, tablesExist, roleCols, theoryCols, users, categories,
                   patterns, problems, solutions, openRows, leaked, dbReady, handlersDB,
                   restarts, nextId, nextUser, now, tokens, resp, conv, calls>>

\* seedLearningData: check-then-insert keyed on the slug, for each fixed topic
seedLearningData ==
    /\ pc = "SeedLearningData"
    /\ topics' = Seeded(topics, Range(SeedTopics), now)
    /\ pc' = "Publish"
    /\ UNCHANGED <<isPostgres, tablesExist, roleCols, theoryCols, users, categories,
                   patterns, problems, solutions, openRows, leaked, dbReady, handlersDB,
                   restarts, nextId, nextUser, now, tokens, resp, conv, calls>>

\* seedLearningData returns an error at its k-th topic: logged, not fatal
seedLearningDataFails ==
    /\ pc = "SeedLearningData"
    /\ \E k \in 1..Len(SeedTopics) :
          topics' = Seeded(topics, {SeedTopics[i] : i \in 1..(k - 1)}, now)
    /\ pc' = "Publish"
    /\ UNCHANGED <<isPostgres, tablesExist, roleCols, theoryCols, users, categories,
                   patterns, problems, solutions, openRows, leaked, dbReady, handlersDB,
                   restarts, nextId, nextUser, now, tokens, resp, conv, calls>>

\* InitSchema, migrate or createDemoUser returns an error: NewDatabase returns
\* it and main's goroutine calls log.Fatalf, which exits the process
InitFails ==
    /\ pc \in {"InitSchema", "MigrateRole", "MigrateTheory", "CreateDemoUser"}
    /\ pc' = "Fatal"
    /\ openRows' = 0
    /\ UNCHANGED <<isPostgres, store, leaked, dbReady, handlersDB, restarts,
                   nextId, nextUser, now, tokens, resp, conv, calls>>

\* main's goroutine after NewDatabase: under dbMutex, handlers.DB = db and
\* dbReady = true
Publish ==
    /\ pc = "Publish"
    /\ handlersDB' = TRUE
    /\ dbReady' = TRUE
    /\ pc' = "Ready"
    /\ UNCHANGED <<isPostgres, store, openRows, leaked, restarts,
                   nextId, nextUser, now, tokens, resp, conv, calls>>

\* the process is stopped and started again on the same store
Restart ==
    /\ restarts < MaxRestarts
    /\ restarts' = restarts + 1
    /\ pc' = "InitSchema"
    /\ openRows' = 0 /\ leaked' = 0
    /\ dbReady' = FALSE /\ handlersDB' = FALSE
    /\ resp' = NoResp
    /\ UNCHANGED <<isPostgres, store, nextId, nextUser, now, tokens, conv, calls>>

Boot == \/ InitSchema \/ MigrateRole \/ MigrateTheory \/ createDemoUser
        \/ seedLearningData \/ seedLearningDataFails \/ InitFails \/ Publish

\* ------------------------------------------------------- the readiness gate
\* the process runs (it has not exited through log.Fatalf): the HTTP server
\* accepts requests from the start, while NewDatabase is still running.
\* Alive_afterFatal: a process that goes on serving after log.Fatalf
Alive_afterFatal == TRUE

Alive == pc # "Fatal"

\* a gate that lets every request through
checkDBReady_always == TRUE

\* main(): checkDBReady
checkDBReady == dbReady /\ handlersDB

\* replaced: the solutions rows the request rewrote in place
Respond(op, caller, status, id) ==
    resp' = [op |-> op, caller |-> caller, status |-> status, id |-> id, replaced |-> {}]

\* ------------------------------------------------------------- auth guard
\* AuthMiddleware: the role of the caller.  The role claim is used when the
\* token has one; otherwise the guard runs "SELECT role FROM users WHERE id = ?"
\* as written (the text is not translated) and takes admin on any error.
AuthRole(tok) ==
    IF tok.role # "" THEN tok.role
    ELSE IF ~EngineAccepts(SQL(1)) THEN "admin"
    ELSE LET rows == {u \in users : u.id = tok.userID} IN
         IF rows = {} THEN "admin"
         ELSE LET u == CHOOSE u \in rows : TRUE IN
              IF u.role \in {Null, NoCol} THEN "admin" ELSE u.role

\* isDemoUser(r), for the request that carries token tok
isDemoUser(tok) == AuthRole(tok) = "demo"

\* A request to a route of the /api subrouter stops in the middleware chain,
\* whatever the route: at the gate (503) or in the auth guard (401)
Stopped(tok) ==
    /\ Alive
    /\ ~checkDBReady \/ tok \notin tokens
    /\ IF ~checkDBReady
       THEN Respond("api", Nil, 503, Nil)
       ELSE Respond("api", Nil, 401, Nil)
    /\ UNCHANGED <<isPostgres, store, proc, nextId, nextUser, now, tokens, conv, calls>>

\* the request passes the gate and the auth guard and reaches the handler
Admitted(tok) == Alive /\ checkDBReady /\ tok \in tokens /\ ConnFree

\* the handler answers forbidden and returns
Forbidden(op, tok, id) ==
    /\ Respond(op, tok.userID, 403, id)
    /\ UNCHANGED <<isPostgres, store, proc, nextId, nextUser, now, tokens, conv, calls>>

\* ----------------------------------------------------------- Register, Login
Register(email, pw) ==
    /\ Alive
    /\ IF ~checkDBReady
       THEN /\ Respond("Register", Nil, 503, Nil)
            /\ UNCHANGED <<users, nextUser, tokens>>
       ELSE /\ ConnFree
            /\ IF \E u \in users : u.email = email \/ ToLower(u.email) = ToLower(email)
               THEN /\ Respond("Register", Nil, 409, Nil)
                    /\ UNCHANGED <<users, nextUser, tokens>>
               ELSE /\ nextUser < MaxUsers
                    /\ nextUser' = nextUser + 1
                    /\ users' = users \cup {UserRow(UserIdOf(nextUser + 1), email, "admin", pw)}
                    /\ tokens' = tokens \cup {[userID |-> UserIdOf(nextUser + 1), role |-> ""]}
                    /\ Respond("Register", Nil, 201, UserIdOf(nextUser + 1))
    /\ UNCHANGED <<isPostgres, tablesExist, roleCols, theoryCols, categories, patterns,
                   problems, solutions, topics, proc, nextId, now, conv, calls>>

\* a lookup that stops after its second query
LoginLookup_twoTiers(email) ==
    LET normalizedEmail == TrimSpace(ToLower(email))
        trimmedEmail    == TrimSpace(email)
        t1 == {u \in users : u.email = trimmedEmail}
        t2 == {u \in users : ToLower(u.email) = normalizedEmail}
    IN  IF t1 # {} THEN t1 ELSE t2

\* Login's three-tier lookup: the rows the first successful tier can return
LoginLookup(email) ==
    LET normalizedEmail == TrimSpace(ToLower(email))
        trimmedEmail    == TrimSpace(email)
        t1 == {u \in users : u.email = trimmedEmail}
        t2 == {u \in users : ToLower(u.email) = normalizedEmail}
        t3 == {u \in users : TrimSpace(ToLower(u.email)) = normalizedEmail}
    IN  IF t1 # {} THEN t1 ELSE IF t2 # {} THEN t2 ELSE t3

Login(email, pw) ==
    /\ Alive
    /\ IF ~checkDBReady
       THEN /\ Respond("Login", Nil, 503, Nil)
            /\ UNCHANGED <<users, tokens>>
       ELSE /\ ConnFree
            /\ IF LoginLookup(email) = {}
               THEN /\ Respond("Login", Nil, 401, Nil)
                    /\ UNCHANGED <<users, tokens>>
               ELSE \E user \in LoginLookup(email) :
                    \* COALESCE(role, 'admin'); an empty role is rewritten to admin
                    /\ users' = IF user.role = ""
                                THEN (users \ {user}) \cup {[user EXCEPT !.role = "admin"]}
                                ELSE users
                    /\ IF user.password = pw
                       THEN /\ tokens' = tokens \cup {[userID |-> user.id, role |-> ""]}
                            /\ Respond("Login", Nil, 200, user.id)
                       ELSE /\ UNCHANGED tokens
                            /\ Respond("Login", Nil, 401, Nil)
    /\ UNCHANGED <<isPostgres, tablesExist, roleCols, theoryCols, categories, patterns,
                   problems, solutions, topics, proc, nextId, nextUser, now, conv, calls>>

\* ------------------------------------------------------------ content rows
\* the identifiers a client sends: those of the rows it can list, or one that
\* names no row
NoSuchId     == "id0"
CategoryArgs == {c.id : c \in categories} \cup {NoSuchId}
PatternArgs  == {p.id : p \in patterns} \cup {NoSuchId}
ProblemArgs  == {p.id : p \in problems} \cup {NoSuchId}
Theories == {""}

ChildPatterns(cats)  == {p \in patterns : p.category_id \in cats}
ChildProblems(pats)  == {p \in problems : p.pattern_id \in {q.id : q \in pats}}
ChildSolutions(prbs) == {s \in solutions : s.problem_id \in {q.id : q \in prbs}}

\* ------------------------------------------------------- category handlers
CreateCategory(tok, d) ==
    /\ Admitted(tok)
    /\ IF isDemoUser(tok)
       THEN Forbidden("CreateCategory", tok, Nil)
       ELSE /\ nextId < MaxIds
            /\ Prepared(6)
            /\ \E c \in Clock(now) : \E u \in Clock(c) :
                 /\ categories' = categories \cup
                        {[id |-> IdOf(nextId + 1), data |-> d, created_at |-> c, updated_at |-> u]}
                 /\ now' = u
            /\ nextId' = nextId + 1
            /\ Respond("CreateCategory", tok.userID, 201, IdOf(nextId + 1))
            /\ UNCHANGED <<isPostgres, tablesExist, roleCols, theoryCols, users, patterns,
                           problems, solutions, topics, proc, nextUser, tokens, conv, calls>>

UpdateCategory(tok, id, d) ==
    /\ Admitted(tok)
    /\ IF isDemoUser(tok)
       THEN Forbidden("UpdateCategory", tok, id)
       ELSE /\ Prepared(5)
            /\ \E u \in Clock(now) :
                 /\ categories' = {IF c.id = id THEN [c EXCEPT !.data = d, !.updated_at = u] ELSE c
                                   : c \in categories}
                 /\ now' = u
            /\ Respond("UpdateCategory", tok.userID, 200, id)
            /\ UNCHANGED <<isPostgres, tablesExist, roleCols, theoryCols, users, patterns,
                           problems, solutions, topics, proc, nextId, nextUser, tokens, conv, calls>>

\* DELETE FROM categories WHERE id = ?: the rows of the other tables go only
\* through the ON DELETE CASCADE constraints, where the engine enforces them
DeleteCategory(tok, id) ==
    /\ Admitted(tok)
    /\ IF isDemoUser(tok)
       THEN Forbidden("DeleteCategory", tok, id)
       ELSE /\ Prepared(1)
            /\ categories' = {c \in categories : c.id # id}
            /\ IF FKEnforced
               THEN LET pats == ChildPatterns({id})
                        prbs == ChildProblems(pats)
                    IN  /\ patterns'  = patterns \ pats
                        /\ problems'  = problems \ prbs
                        /\ solutions' = solutions \ ChildSolutions(prbs)
               ELSE UNCHANGED <<patterns, problems, solutions>>
            /\ Respond("DeleteCategory", tok.userID, 200, id)
            /\ UNCHANGED <<isPostgres, tablesExist, roleCols, theoryCols, users, topics,
                           proc, nextId, nextUser, now, tokens, conv, calls>>

\* -------------------------------------------------------- pattern handlers
CreatePattern(tok, categoryID, d, th) ==
    /\ Admitted(tok)
    /\ IF isDemoUser(tok)
       THEN Forbidden("CreatePattern", tok, categoryID)
       ELSE /\ nextId < MaxIds
            /\ Prepared(8)
            /\ nextId' = nextId + 1
            /\ IF FKEnforced /\ ~\E c \in categories : c.id = categoryID
               THEN /\ Respond("CreatePattern", tok.userID, 500, categoryID)
                    /\ \E c \in Clock(now) : \E u \in Clock(c) : now' = u
                    /\ UNCHANGED patterns
               ELSE /\ \E c \in Clock(now) : \E u \in Clock(c) :
                         /\ patterns' = patterns \cup
                              {[id |-> IdOf(nextId + 1), category_id |-> categoryID, data |-> d,
                                theory |-> th, created_at |-> c, updated_at |-> u]}
                         /\ now' = u
                    /\ Respond("CreatePattern", tok.userID, 201, IdOf(nextId + 1))
            /\ UNCHANGED <<isPostgres, tablesExist, roleCols, theoryCols, users, categories,
                           problems, solutions, topics, proc, nextUser, tokens, conv, calls>>

UpdatePattern(tok, id, d, th) ==
    /\ Admitted(tok)
    /\ IF isDemoUser(tok)
       THEN Forbidden("UpdatePattern", tok, id)
       ELSE /\ Prepared(6)
            /\ \E u \in Clock(now) :
                 /\ patterns' = {IF p.id = id
                                 THEN [p EXCEPT !.data = d, !.theory = th, !.updated_at = u]
                                 ELSE p : p \in patterns}
                 /\ now' = u
            /\ Respond("UpdatePattern", tok.userID, 200, id)
            /\ UNCHANGED <<isPostgres, tablesExist, roleCols, theoryCols, users, categories,
                           problems, solutions, topics, proc, nextId, nextUser, tokens, conv, calls>>

UpdatePatternTheory(tok, id, th) ==
    /\ Admitted(tok)
    /\ IF isDemoUser(tok)
       THEN Forbidden("UpdatePatternTheory", tok, id)
       ELSE /\ Prepared(3)
            /\ \E u \in Clock(now) :
                 /\ patterns' = {IF p.id = id THEN [p EXCEPT !.theory = th, !.updated_at = u] ELSE p
                                 : p \in patterns}
                 /\ now' = u
            /\ Respond("UpdatePatternTheory", tok.userID, 200, id)
            /\ UNCHANGED <<isPostgres, tablesExist, roleCols, theoryCols, users, categories,
                           problems, solutions, topics, proc, nextId, nextUser, tokens, conv, calls>>

DeletePattern(tok, id) ==
    /\ Admitted(tok)
    /\ IF isDemoUser(tok)
       THEN Forbidden("DeletePattern", tok, id)
       ELSE /\ Prepared(1)
            /\ patterns' = {p \in patterns : p.id # id}
            /\ IF FKEnforced
               THEN LET prbs == {p \in problems : p.pattern_id = id}
                    IN  /\ problems'  = problems \ prbs
                        /\ solutions' = solutions \ ChildSolutions(prbs)
               ELSE UNCHANGED <<problems, solutions>>
            /\ Respond("DeletePattern", tok.userID, 200, id)
            /\ UNCHANGED <<isPostgres, tablesExist, roleCols, theoryCols, users, categories,
                           topics, proc, nextId, nextUser, now, tokens, conv, calls>>

\* -------------------------------------------------------- problem handlers
\* the solutions lists of a payload, with their code taken from the set codes
SolPayloads(codes) ==
    UNION {[1..n -> [language : Languages, code : codes]] : n \in 0..MaxSols}

\* The loop of CreateProblem over prob.Solutions, from the state st =
\* [sols, nextId, now, ok]: each solution takes a fresh identifier and two
\* readings of the clock and is inserted; UNIQUE(problem_id, language) makes
\* the insert of a second solution in the same language fail, and the handler
\* returns at once.  The result is the set of states the loop can end in.
RECURSIVE InsertSolutions(_, _, _)
InsertSolutions(problemID, payload, st) ==
    IF payload = <<>> \/ ~st.ok THEN {st}
    ELSE LET sol == Head(payload) IN
         UNION {
           IF \E s \in st.sols : s.problem_id = problemID /\ s.language = sol.language
           THEN {[st EXCEPT !.ok = FALSE, !.nextId = @ + 1, !.now = u]}
           ELSE IF st.nextId >= MaxIds THEN {}
           ELSE InsertSolutions(problemID, Tail(payload),
                  [st EXCEPT !.sols = @ \cup {[id |-> IdOf(st.nextId + 1), problem_id |-> problemID,
                                               language |-> sol.language, code |-> sol.code,
                                               created_at |-> c, updated_at |-> u]},
                             !.nextId = @ + 1, !.now = u])
           : <<c, u>> \in {<<c, u>> \in Clock(st.now) \X (0..MaxTime) : u \in Clock(c)} }

CreateProblem(tok, patternID, d, payload) ==
    /\ Admitted(tok)
    /\ IF isDemoUser(tok)
       THEN Forbidden("CreateProblem", tok, patternID)
       ELSE /\ nextId < MaxIds
            /\ Prepared(14) /\ Prepared(6)
            /\ IF FKEnforced /\ ~\E p \in patterns : p.id = patternID
               THEN /\ Respond("CreateProblem", tok.userID, 500, patternID)
                    /\ nextId' = nextId + 1
                    /\ \E c \in Clock(now) : \E u \in Clock(c) : now' = u
                    /\ UNCHANGED <<problems, solutions>>
               ELSE \E c \in Clock(now) : \E u \in Clock(c) :
                    \E st \in InsertSolutions(IdOf(nextId + 1), payload,
                                 [sols |-> solutions, nextId |-> nextId + 1, now |-> u, ok |-> TRUE]) :
                      /\ problems' = problems \cup
                            {[id |-> IdOf(nextId + 1), pattern_id |-> patternID, data |-> d,
                              created_at |-> c, updated_at |-> u]}
                      /\ solutions' = st.sols
                      /\ nextId' = st.nextId
                      /\ now' = st.now
                      /\ Respond("CreateProblem", tok.userID, IF st.ok THEN 201 ELSE 500,
                                 IdOf(nextId + 1))
            /\ UNCHANGED <<isPostgres, tablesExist, roleCols, theoryCols, users, categories,
                           patterns, topics, proc, nextUser, tokens, conv, calls>>

\* SELECT id FROM solutions WHERE problem_id = ? AND language = ?
SelectSolution_none(sols, problemID, language) == {}

SelectSolution(sols, problemID, language) ==
    {s \in sols : s.problem_id = problemID /\ s.language = language}

\* UPDATE solutions SET code = ?, updated_at = ? WHERE problem_id = ? AND language = ?
UpdateSolution_anyLanguage(sols, problemID, language, code, u) ==
    {IF s.problem_id = problemID
     THEN [s EXCEPT !.code = code, !.updated_at = u]
     ELSE s : s \in sols}

UpdateSolution(sols, problemID, language, code, u) ==
    {IF s.problem_id = problemID /\ s.language = language
     THEN [s EXCEPT !.code = code, !.updated_at = u]
     ELSE s : s \in sols}

\* The loop of UpdateProblem over prob.Solutions, from the state st = [sols,
\* nextId, now, ok, replaced]: read the clock, look the (problem_id, language)
\* pair up, then insert a new row (fresh identifier, a second reading of the
\* clock for created_at) or update code and updated_at of the existing one.
\* exists: the problems row is there (the foreign key of an inserted solution).
RECURSIVE UpsertSolutions(_, _, _, _)
UpsertSolutions(problemID, exists, payload, st) ==
    IF payload = <<>> \/ ~st.ok THEN {st}
    ELSE LET sol      == Head(payload)
             existing == SelectSolution(st.sols, problemID, sol.language)
         IN  UNION {
               IF existing = {}
               THEN IF st.nextId >= MaxIds THEN {}
                    ELSE UNION {
                      IF FKEnforced /\ ~exists
                      THEN {[st EXCEPT !.ok = FALSE, !.nextId = @ + 1, !.now = c]}
                      ELSE UpsertSolutions(problemID, exists, Tail(payload),
                             [st EXCEPT !.sols = @ \cup {[id |-> IdOf(st.nextId + 1),
                                                          problem_id |-> problemID,
                                                          language |-> sol.language, code |-> sol.code,
                                                          created_at |-> c, updated_at |-> u]},
                                        !.nextId = @ + 1, !.now = c])
                      : c \in Clock(u) }
               ELSE UpsertSolutions(problemID, exists, Tail(payload),
                      [st EXCEPT !.sols = UpdateSolution(@, problemID, sol.language, sol.code, u),
                                 !.replaced = @ \cup {s.id : s \in existing},
                                 !.now = u])
               : u \in Clock(st.now) }

\* the state the loop of UpdateProblem starts from, after the UPDATE of the
\* problems row at clock reading u
UpsertStart(u) == [sols |-> solutions, nextId |-> nextId, now |-> u, ok |-> TRUE, replaced |-> {}]

UpdateProblem(tok, id, d, payload) ==
    /\ Admitted(tok)
    /\ IF isDemoUser(tok)
       THEN Forbidden("UpdateProblem", tok, id)
       ELSE /\ Prepared(12) /\ Prepared(2) /\ Prepared(6) /\ Prepared(4)
            /\ \E u \in Clock(now) :
               \E st \in UpsertSolutions(id, \E p \in problems : p.id = id, payload, UpsertStart(u)) :
                 /\ problems' = {IF p.id = id THEN [p EXCEPT !.data = d, !.updated_at = u] ELSE p
                                 : p \in problems}
                 /\ solutions' = st.sols
                 /\ nextId' = st.nextId
                 /\ now' = st.now
                 /\ resp' = [op |-> "UpdateProblem", caller |-> tok.userID,
                             status |-> IF st.ok THEN 200 ELSE 500, id |-> id,
                             replaced |-> st.replaced]
            /\ UNCHANGED <<isPostgres, tablesExist, roleCols, theoryCols, users, categories,
                           patterns, topics, proc, nextUser, tokens, conv, calls>>

DeleteProblem_checkAfter(tok, id) ==
    /\ Admitted(tok)
    /\ problems' = {p \in problems : p.id # id}
    /\ solutions' = IF FKEnforced THEN {s \in solutions : s.problem_id # id} ELSE solutions
    /\ Respond("DeleteProblem", tok.userID, IF isDemoUser(tok) THEN 403 ELSE 200, id)
    /\ UNCHANGED <<isPostgres, tablesExist, roleCols, theoryCols, users, categories,
                   patterns, topics, proc, nextId, nextUser, now, tokens, conv, calls>>

DeleteProblem(tok, id) ==
    /\ Admitted(tok)
    /\ IF isDemoUser(tok)
       THEN Forbidden("DeleteProblem", tok, id)
       ELSE /\ Prepared(1)
            /\ problems' = {p \in problems : p.id # id}
            /\ solutions' = IF FKEnforced THEN {s \in solutions : s.problem_id # id} ELSE solutions
            /\ Respond("DeleteProblem", tok.userID, 200, id)
            /\ UNCHANGED <<isPostgres, tablesExist, roleCols, theoryCols, users, categories,
                           patterns, topics, proc, nextId, nextUser, now, tokens, conv, calls>>

\* getSolutions(problemID)
getSolutions(problemID) == {s \in solutions : s.problem_id = problemID}

\* GetProblem answering 200 when its query finds no row
GetProblemResult_ignoreNoRows(id) ==
    [status |-> 200, body |-> [problem |-> {p \in problems : p.id = id},
                               solutions |-> getSolutions(id)]]

\* what GetProblem answers for id in the current store
GetProblemResult(id) ==
    IF \E p \in problems : p.id = id
    THEN [status |-> 200,
          body |-> [problem |-> CHOOSE p \in problems : p.id = id, solutions |-> getSolutions(id)]]
    ELSE [status |-> 404, body |-> Nil]

GetProblem(tok, id) ==
    /\ Admitted(tok)
    /\ Prepared(1)
    /\ Respond("GetProblem", tok.userID, GetProblemResult(id).status, id)
    /\ UNCHANGED <<isPostgres, store, proc, nextId, nextUser, now, tokens, conv, calls>>

\* GetProblems calls getSolutions inside its rows.Next() loop, while its own
\* result set is open: the inner query needs a second connection.  With the
\* one-connection pool it waits for ever, holding the only connection.
GetProblems(tok, patternID) ==
    /\ Admitted(tok)
    /\ Prepared(1)
    /\ LET rows == {p \in problems : p.pattern_id = patternID} IN
       IF rows # {} /\ openRows + leaked + 2 > MaxOpenConns
       THEN /\ leaked' = leaked + 1
            /\ UNCHANGED resp
       ELSE /\ Respond("GetProblems", tok.userID, 200, patternID)
            /\ UNCHANGED leaked
    /\ UNCHANGED <<isPostgres, store, pc, openRows, dbReady, handlersDB, restarts,
                   nextId, nextUser, now, tokens, conv, calls>>

\* ----------------------------------------------------------- bulk handlers
\* FetchAllExternalData: the outbound call fails, or returns a structure with
\* no category, or one category (without patterns) named d
FetchAllExternalData(tok, ext) ==
    /\ Admitted(tok)
    /\ IF isDemoUser(tok)
       THEN Forbidden("FetchAllExternalData", tok, Nil)
       ELSE /\ IF ext \in Data /\ ~\E c \in categories : c.data = ext
               THEN /\ nextId < MaxIds
                    /\ nextId' = nextId + 1
                    /\ \E c \in Clock(now) : \E u \in Clock(c) :
                         /\ categories' = categories \cup
                              {[id |-> IdOf(nextId + 1), data |-> ext, created_at |-> c, updated_at |-> u]}
                         /\ now' = u
               ELSE UNCHANGED <<categories, nextId, now>>
            /\ Respond("FetchAllExternalData", tok.userID, IF ext = "fail" THEN 500 ELSE 200, Nil)
            /\ UNCHANGED <<isPostgres, tablesExist, roleCols, theoryCols, users, patterns,
                           problems, solutions, topics, proc, nextUser, tokens, conv, calls>>

\* a ClearAllData whose list of tables names users as well
ClearAllData_withUsers(tok) ==
    /\ Admitted(tok)
    /\ IF isDemoUser(tok)
       THEN Forbidden("ClearAllData", tok, Nil)
       ELSE /\ solutions' = {} /\ problems' = {} /\ patterns' = {} /\ categories' = {}
            /\ topics' = {} /\ users' = {}
            /\ Respond("ClearAllData", tok.userID, 200, Nil)
            /\ UNCHANGED <<isPostgres, tablesExist, roleCols, theoryCols,
                           proc, nextId, nextUser, now, tokens, conv, calls>>

\* ClearAllData: DELETE FROM each table, children first; users is not listed
ClearAllData(tok) ==
    /\ Admitted(tok)
    /\ IF isDemoUser(tok)
       THEN Forbidden("ClearAllData", tok, Nil)
       ELSE /\ solutions' = {} /\ problems' = {} /\ patterns' = {} /\ categories' = {}
            /\ topics' = {}
            /\ Respond("ClearAllData", tok.userID, 200, Nil)
            /\ UNCHANGED <<isPostgres, tablesExist, roleCols, theoryCols, users,
                           proc, nextId, nextUser, now, tokens, conv, calls>>

\* the tables of ClearAllData, in the order of its loop
ClearTables == <<"solutions", "problems", "patterns", "categories",
                 "learning_resources", "roadmap_items", "learning_topics">>

\* a table after the loop has stopped at its k-th DELETE
ClearedBefore(k, table, rows) ==
    IF \E i \in 1..(k - 1) : ClearTables[i] = table THEN {} ELSE rows

\* ClearAllData when the DELETE of the k-th table returns an error: the loop
\* answers 500 and returns, the deletes before it are done
ClearAllDataFails(tok, k) ==
    /\ Admitted(tok)
    /\ ~isDemoUser(tok)
    /\ solutions'  = ClearedBefore(k, "solutions", solutions)
    /\ problems'   = ClearedBefore(k, "problems", problems)
    /\ patterns'   = ClearedBefore(k, "patterns", patterns)
    /\ categories' = ClearedBefore(k, "categories", categories)
    /\ topics'     = ClearedBefore(k, "learning_topics", topics)
    /\ Respond("ClearAllData", tok.userID, 500, Nil)
    /\ UNCHANGED <<isPostgres, tablesExist, roleCols, theoryCols, users,
                   proc, nextId, nextUser, now, tokens, conv, calls>>

\* ------------------------------------------------------------------- Next
Callers == tokens \cup {NoToken}

\* a request to a protected route that the gate or the auth guard answers
RequestStopped == \E tok \in Callers : Stopped(tok)

\* corsMiddleware answers an OPTIONS request itself, before the route's gate
Preflight ==
    /\ Alive
    /\ Respond("OPTIONS", Nil, 200, Nil)
    /\ UNCHANGED <<isPostgres, store, proc, nextId, nextUser, now, tokens, conv, calls>>

\* the handler has returned and the response is on the wire
ResponseSent ==
    /\ resp # NoResp
    /\ resp' = NoResp
    /\ UNCHANGED <<isPostgres, store, proc, nextId, nextUser, now, tokens, conv, calls>>

Handle ==
    \/ \E e \in RegEmails, pw \in Passwords : Register(e, pw)
    \/ \E e \in LoginEmails, pw \in Passwords \cup {DemoPassword} : Login(e, pw)
    \/ RequestStopped
    \/ Preflight
    \/ \E tok \in tokens :
        \/ \E d \in Data : CreateCategory(tok, d)
        \/ \E id \in CategoryArgs, d \in Data : UpdateCategory(tok, id, d)
        \/ \E id \in CategoryArgs : DeleteCategory(tok, id)
        \/ \E id \in CategoryArgs, d \in Data, th \in Theories : CreatePattern(tok, id, d, th)
        \/ \E id \in PatternArgs, d \in Data, th \in Theories : UpdatePattern(tok, id, d, th)
        \/ \E id \in PatternArgs, th \in Theories : UpdatePatternTheory(tok, id, th)
        \/ \E id \in PatternArgs : DeletePattern(tok, id)
        \/ \E id \in PatternArgs, d \in Data, payload \in SolPayloads({"c1"}) :
              CreateProblem(tok, id, d, payload)
        \/ \E id \in ProblemArgs, d \in Data, payload \in SolPayloads({"c1"}) :
              UpdateProblem(tok, id, d, payload)
        \/ \E id \in ProblemArgs : DeleteProblem(tok, id)
        \/ \E id \in ProblemArgs : GetProblem(tok, id)
        \/ \E id \in PatternArgs : GetProblems(tok, id)
        \/ \E ext \in Data \cup {"fail", "empty"} : FetchAllExternalData(tok, ext)
        \/ ClearAllData(tok)

\* one request is answered at a time
Request == resp = NoResp /\ Handle

Next == Boot \/ Restart \/ Request \/ ResponseSent

\* Behaviours in which every reading of the clock gives the same value: all
\* the handlers, the initialization and restarts.
InitSteady == Init /\ now = MaxTime

Spec == InitSteady /\ [][Next]_vars

\* ------------------------------------- problems and solutions, clock running
\* Behaviours in which the clock advances and the code of a solution varies:
\* an initialization without failure, one registered caller, and the handlers
\* that create the rows above a solution or write solutions.
HandleProblem ==
    \/ \E e \in RegEmails, pw \in Passwords : Register(e, pw)
    \/ \E tok \in tokens :
        \/ \E d \in Data : CreateCategory(tok, d)
        \/ \E id \in CategoryArgs, d \in Data, th \in Theories : CreatePattern(tok, id, d, th)
        \/ \E id \in PatternArgs, d \in Data, payload \in SolPayloads(Codes) :
              CreateProblem(tok, id, d, payload)
        \/ \E id \in ProblemArgs, d \in Data, payload \in SolPayloads(Codes) :
              UpdateProblem(tok, id, d, payload)
        \/ \E id \in ProblemArgs : DeleteProblem(tok, id)

RequestProblem == resp = NoResp /\ HandleProblem

Start == \/ InitSchema \/ MigrateRole \/ MigrateTheory \/ createDemoUser
         \/ seedLearningData \/ Publish

NextClock == Start \/ RequestProblem \/ ResponseSent

\* the clock starts at its first reading; the store holds no user yet
InitClock == Init /\ now = 0 /\ users = {}

SpecClock == InitClock /\ [][NextClock]_vars

\* --------------------------------------------- the translator on its own
\* every text up to MaxQueryLen characters, and the shape of the handlers'
\* statements with 1..MaxParams markers
Queries == UNION {[1..n -> QueryChars] : n \in 0..MaxQueryLen} \cup {SQL(n) : n \in 1..MaxParams}

InitConvert ==
    /\ Init
    /\ tablesExist = FALSE

PickQuery ==
    /\ query = <<>> /\ result = <<>>
    /\ query' \in Queries \ {<<>>}
    /\ UNCHANGED <<isPostgres, store, proc, nextId, nextUser, now, tokens, resp, result, calls>>

Convert ==
    /\ result = <<>>
    /\ result' = convertPlaceholders(isPostgres, query)
    /\ UNCHANGED <<isPostgres, store, proc, nextId, nextUser, now, tokens, resp, query, calls>>

NextConvert == PickQuery \/ Convert

SpecConvert == InitConvert /\ [][NextConvert]_vars

\* ----------------------------------------------------- lists and updates
\* src/backend holds the handlers twice: after main() in main.go, and in
\* handlers.go; the list queries of the two copies differ
HandlerCopies == {"main.go", "handlers.go"}

\* the all-NULL right-hand side a LEFT JOIN gives a row without a match
NullRow == [id |-> Null]

\* FROM parents c LEFT JOIN children p ON p.key = c.id
LeftJoin(parents, children, key) ==
    {<<c, p>> \in parents \X children : p[key] = c.id}
      \cup {<<c, NullRow>> : c \in {c \in parents : ~\E p \in children : p[key] = c.id}}

\* COUNT(*) over the joined rows of one group
CountRows(group) == Cardinality(group)

\* COUNT(DISTINCT p.id) over the joined rows of one group: NULL is not counted
CountDistinct(group) == Cardinality({r[2].id : r \in group} \ {Null})

\* SELECT c.*, COUNT(DISTINCT p.id) ... GROUP BY c.id, ...: one row per parent
Grouped(parents, children, key) ==
    LET joined == LeftJoin(parents, children, key) IN
    {[id |-> c.id, created_at |-> c.created_at, updated_at |-> c.updated_at,
      count |-> CountDistinct({r \in joined : r[1] = c})] : c \in parents}

\* ORDER BY created_at ASC (DESC when desc): every order of the rows that the
\* engine may return, rows with equal created_at in any order
OrderBy(rows, desc) ==
    {seq \in [1..Cardinality(rows) -> rows] :
        /\ \A i, j \in DOMAIN seq : i # j => seq[i] # seq[j]
        /\ \A i, j \in DOMAIN seq :
              i < j => IF desc THEN seq[i].created_at >= seq[j].created_at
                              ELSE seq[i].created_at <= seq[j].created_at}

\* the copy in main.go translates its statement; the one in handlers.go sends
\* it as written
ListQueryOK(copy, n) == IF copy = "main.go" THEN Prepared(n) ELSE EngineAccepts(SQL(n))

\* what the list handlers of a copy can return when their query succeeds
GetCategoriesRows(copy) ==
    OrderBy(Grouped(categories, patterns, "category_id"), copy = "handlers.go")

GetPatternsRows(categoryID, copy) ==
    OrderBy(Grouped({p \in patterns : p.category_id = categoryID}, problems, "pattern_id"),
            copy = "handlers.go")

GetProblemsRows(patternID, copy) ==
    OrderBy({p \in problems : p.pattern_id = patternID}, copy = "handlers.go")

GetCategories(tok) ==
    /\ Admitted(tok)
    /\ Respond("GetCategories", tok.userID, 200, Nil)
    /\ UNCHANGED <<isPostgres, store, proc, nextId, nextUser, now, tokens, conv, calls>>

GetPatterns(tok, categoryID, copy) ==
    /\ Admitted(tok)
    /\ Respond("GetPatterns", tok.userID, IF ListQueryOK(copy, 1) THEN 200 ELSE 500, categoryID)
    /\ UNCHANGED <<isPostgres, store, proc, nextId, nextUser, now, tokens, conv, calls>>

\* GetProblem when its query, or the query of getSolutions, returns an error
\* other than sql.ErrNoRows
GetProblemQueryError(tok, id) ==
    /\ Admitted(tok)
    /\ Respond("GetProblem", tok.userID, 500, id)
    /\ UNCHANGED <<isPostgres, store, proc, nextId, nextUser, now, tokens, conv, calls>>

\* the JSON body of a PUT: the client may put any id and createdAt in it
Bodies(ids) == [id : ids, data : Data, createdAt : 0..MaxTime]

\* PUT /api/categories/{id} writing id and created_at from the body
PutCategory_trustBody(tok, id, body) ==
    /\ Admitted(tok)
    /\ \E u \in Clock(now) :
         /\ categories' = {IF c.id = id
                           THEN [c EXCEPT !.id = body.id, !.data = body.data,
                                          !.created_at = body.createdAt, !.updated_at = u]
                           ELSE c : c \in categories}
         /\ now' = u
    /\ Respond("UpdateCategory", tok.userID, 200, id)
    /\ UNCHANGED <<isPostgres, tablesExist, roleCols, theoryCols, users, patterns,
                   problems, solutions, topics, proc, nextId, nextUser, tokens, conv, calls>>

\* PUT /api/categories/{id}: the body is decoded into a Category, of which the
\* statement takes Name, Icon and Description; the id is the one of the URL
PutCategory(tok, id, body) == UpdateCategory(tok, id, body.data)

\* PUT /api/patterns/{id}
PutPattern(tok, id, body, th) == UpdatePattern(tok, id, body.data, th)

\* PUT /api/problems/{id}
PutProblem(tok, id, body, payload) == UpdateProblem(tok, id, body.data, payload)

HandleContent ==
    \/ \E e \in RegEmails, pw \in Passwords : Register(e, pw)
    \/ \E tok \in tokens :
        \/ \E d \in Data : CreateCategory(tok, d)
        \/ \E id \in CategoryArgs, d \in Data, th \in Theories : CreatePattern(tok, id, d, th)
        \/ \E id \in PatternArgs, d \in Data, payload \in SolPayloads({"c1"}) :
              CreateProblem(tok, id, d, payload)
        \/ \E id \in CategoryArgs, body \in Bodies(CategoryArgs) : PutCategory(tok, id, body)
        \/ \E id \in PatternArgs, body \in Bodies(PatternArgs), th \in Theories :
              PutPattern(tok, id, body, th)
        \/ \E id \in PatternArgs, th \in Theories : UpdatePatternTheory(tok, id, th)
        \/ \E id \in ProblemArgs, body \in Bodies(ProblemArgs), payload \in SolPayloads({"c1"}) :
              PutProblem(tok, id, body, payload)
        \/ GetCategories(tok)
        \/ \E id \in CategoryArgs, copy \in HandlerCopies : GetPatterns(tok, id, copy)
        \/ \E id \in ProblemArgs : GetProblem(tok, id)
        \/ \E id \in ProblemArgs : GetProblemQueryError(tok, id)

RequestContent == resp = NoResp /\ HandleContent

NextContent == Start \/ RequestContent \/ ResponseSent

SpecContent == InitClock /\ [][NextContent]_vars

\* ------------------------------------------ the auth guard, header by header
\* A bearer token as jwt.Parse sees it: alg is the signing method of its
\* header, signed says that its signature verifies under jwtSecret, expired
\* that its exp claim is in the past; userID is Nil when the claim is missing
\* or not a string, role is "" when the claim is missing or not a string.
TokenOf(alg, signed, expired, userID, role) ==
    [alg |-> alg, signed |-> signed, expired |-> expired, userID |-> userID, role |-> role]

\* the tokens a client can send: the ones Login and Register issued, fresh or
\* past their expiry; tokens that name a user but were signed with another key
\* or carry alg "none"; and a token signed under jwtSecret without a userID
BearerTokens ==
    {TokenOf("HS256", TRUE, e, t.userID, t.role) : t \in tokens, e \in BOOLEAN}
      \cup {TokenOf(a, FALSE, FALSE, u.id, "") : a \in {"HS256", "none"}, u \in users}
      \cup {TokenOf("HS256", TRUE, FALSE, Nil, "")}

\* the Authorization header, as strings.Split(authHeader, " ") cuts it: <<>>
\* is the missing header
Headers ==
    {<<>>, <<"Bearer">>}
      \cup {<<scheme, t>> : scheme \in {"Bearer", "bearer", "Basic"}, t \in BearerTokens}
      \cup {<<"Bearer", t, t>> : t \in BearerTokens}

\* jwt.Parse accepting a token whose exp is in the past
ParseValid_ignoreExpiry(t) == t.alg = "HS256" /\ t.signed

\* jwt.Parse with the key function of AuthMiddleware: the method is HMAC, the
\* signature verifies under jwtSecret, the token has not expired
ParseValid(t) == t.alg = "HS256" /\ t.signed /\ ~t.expired

\* AuthMiddleware up to the role lookup: NoToken when it answers 401, else the
\* claims it takes from the token
AuthMiddleware(h) ==
    IF h = <<>> THEN NoToken
    ELSE IF Len(h) # 2 \/ h[1] # "Bearer" THEN NoToken
    ELSE IF ~ParseValid(h[2]) THEN NoToken
    ELSE IF h[2].userID = Nil THEN NoToken
    ELSE [userID |-> h[2].userID, role |-> h[2].role]

\* the handlers behind the guard that this specification calls
Protected(tok) ==
    \/ \E d \in Data : CreateCategory(tok, d)
    \/ \E id \in CategoryArgs, d \in Data : UpdateCategory(tok, id, d)
    \/ \E id \in CategoryArgs : DeleteCategory(tok, id)

\* a request other than OPTIONS to a route of the /api subrouter, with the
\* Authorization header h: the gate, then AuthMiddleware, then the handler
ApiRequest(h) ==
    /\ Alive
    /\ IF ~checkDBReady \/ AuthMiddleware(h) = NoToken
       THEN /\ Respond("api", Nil, IF ~checkDBReady THEN 503 ELSE 401, Nil)
            /\ UNCHANGED <<isPostgres, store, proc, nextId, nextUser, now, tokens, conv, calls>>
       ELSE Protected(AuthMiddleware(h))

\* the texts the guard and the debug route send to the engine as written
RoleLookup  == SQL(1)   \* "SELECT role FROM users WHERE id = ?"
DebugLookup == SQL(2)   \* "... WHERE email = ? OR LOWER(email) = LOWER(?)"

\* GET /api/debug/user-exists?email=...: a public route behind the gate only
DebugUserExists(email) ==
    /\ Alive
    /\ IF ~checkDBReady
       THEN Respond("DebugUserExists", Nil, 503, Nil)
       ELSE /\ ConnFree
            /\ IF ~EngineAccepts(DebugLookup)
               THEN Respond("DebugUserExists", Nil, 500, Nil)
               ELSE LET found == {u \in users : u.email = email \/ ToLower(u.email) = ToLower(email)}
                    IN  \E id \in (IF found = {} THEN {Nil} ELSE {u.id : u \in found}) :
                           Respond("DebugUserExists", Nil, 200, id)
    /\ UNCHANGED <<isPostgres, store, proc, nextId, nextUser, now, tokens, conv, calls>>

\* Login when the query of one of its three lookups returns an error: the
\* first two are tested against sql.ErrNoRows and any other error ends in
\* "Database error"; the third is run only after two ErrNoRows, and when it
\* fails err is left as it was, sql.ErrNoRows
LoginQueryError(email, tier) ==
    /\ Alive /\ checkDBReady /\ ConnFree
    /\ LET normalizedEmail == TrimSpace(ToLower(email))
           trimmedEmail    == TrimSpace(email)
           t1 == {u \in users : u.email = trimmedEmail}
           t2 == {u \in users : ToLower(u.email) = normalizedEmail}
       IN  /\ tier = 2 => t1 = {}
           /\ tier = 3 => (t1 = {} /\ t2 = {})
    /\ Respond("Login", Nil, IF tier = 3 THEN 401 ELSE 500, Nil)
    /\ UNCHANGED <<isPostgres, store, proc, nextId, nextUser, now, tokens, conv, calls>>

HandleAuth ==
    \/ \E e \in RegEmails, pw \in Passwords : Register(e, pw)
    \/ \E e \in LoginEmails, pw \in Passwords \cup {DemoPassword} : Login(e, pw)
    \/ \E e \in LoginEmails, tier \in 1..3 : LoginQueryError(e, tier)
    \/ \E e \in LoginEmails : DebugUserExists(e)
    \/ \E h \in Headers : ApiRequest(h)

RequestAuth == resp = NoResp /\ HandleAuth

NextAuth == Boot \/ RequestAuth \/ ResponseSent

SpecAuth == InitSteady /\ [][NextAuth]_vars

\* ------------------------------------------------ stores of earlier versions
\* rows written by a version of the program whose users had no role column
\* and whose patterns had no theory column
LegacyCategory == [id |-> "legacy-category", data |-> "v1", created_at |-> 0, updated_at |-> 0]
LegacyPattern  == [id |-> "legacy-pattern", category_id |-> "legacy-category", data |-> "v1",
                   theory |-> NoCol, created_at |-> 0, updated_at |-> 0]

\* rows written by a version that had the columns
RoleUser      == UserRow("user0", <<"c">>, "admin", "pw")
TheoryPattern == [id |-> "pattern0", category_id |-> "legacy-category", data |-> "v1",
                  theory |-> "th", created_at |-> 0, updated_at |-> 0]

\* The process starts on a store an earlier version left: the tables exist,
\* users may lack the role column and patterns the theory column, and the
\* tables hold rows written with the columns they had then.
InitLegacy ==
    /\ isPostgres \in BOOLEAN
    /\ tablesExist = TRUE
    /\ roleCols \in {0, 1}
    /\ theoryCols \in {0, 1}
    /\ users \in (IF roleCols = 0 THEN SUBSET {LegacyUser} ELSE SUBSET {RoleUser, DemoUser})
    /\ categories \in SUBSET {LegacyCategory}
    /\ patterns \in (IF categories = {} THEN {{}}
                     ELSE IF theoryCols = 0 THEN SUBSET {LegacyPattern}
                     ELSE SUBSET {TheoryPattern})
    /\ problems = {} /\ solutions = {}
    /\ topics = {}
    /\ pc = "InitSchema"
    /\ openRows = 0 /\ leaked = 0
    /\ dbReady = FALSE /\ handlersDB = FALSE
    /\ restarts = 0
    /\ nextId = 0 /\ nextUser = 0
    /\ now = MaxTime
    /\ tokens = {}
    /\ resp = NoResp
    /\ query = <<>> /\ result = <<>>
    /\ calls = NoCalls

NextMigrate == Boot \/ Restart

SpecMigrate == InitLegacy /\ [][NextMigrate]_vars

\* ------------------------------------------------ seeding over restarts
\* time passes between two steps of the process
Tick ==
    /\ now < MaxTime
    /\ now' = now + 1
    /\ UNCHANGED <<isPostgres, store, proc, nextId, nextUser, tokens, resp, conv, calls>>

HandleSeed ==
    \/ \E e \in RegEmails, pw \in Passwords : Register(e, pw)
    \/ \E e \in LoginEmails, pw \in Passwords \cup {DemoPassword} : Login(e, pw)
    \/ \E tok \in tokens : ClearAllData(tok)

RequestSeed == resp = NoResp /\ HandleSeed

NextSeed == Boot \/ Restart \/ Tick \/ RequestSeed \/ ResponseSent

\* the store is new or the one of an earlier version; the clock is at its
\* first reading
InitSeed == Init /\ now = 0

SpecSeed == InitSeed /\ [][NextSeed]_vars

\* ------------------------------------- handlers, statement by statement
\* Each request runs in its own goroutine and the engine serializes single
\* statements only: between two statements of one call, statements of another
\* call can run.  Register and UpdateProblem are cut after the SELECT that
\* decides whether they insert.
RaceEmails == {<<"a">>, <<"A">>}

\* Register up to its SELECT ... WHERE email = ? OR LOWER(email) = LOWER(?)
RegisterSelect(g, email, pw) ==
    /\ Alive /\ checkDBReady /\ ConnFree
    /\ calls[g] = Idle
    /\ IF \E u \in users : u.email = email \/ ToLower(u.email) = ToLower(email)
       THEN /\ Respond("Register", Nil, 409, Nil)
            /\ UNCHANGED calls
       ELSE /\ calls' = [calls EXCEPT ![g] = [op |-> "Register", email |-> email, pw |-> pw]]
            /\ UNCHANGED resp
    /\ UNCHANGED <<isPostgres, store, proc, nextId, nextUser, now, tokens, conv>>

\* Register from generateID() on: INSERT INTO users, stopped only by the
\* UNIQUE constraint on email, which compares the stored bytes
RegisterInsert(g) ==
    /\ Alive /\ ConnFree
    /\ calls[g].op = "Register"
    /\ nextUser < MaxCalls
    /\ nextUser' = nextUser + 1
    /\ IF \E u \in users : u.email = calls[g].email
       THEN /\ Respond("Register", Nil, 500, Nil)
            /\ UNCHANGED <<users, tokens>>
       ELSE /\ users' = users \cup
                  {UserRow(UserIdOf(nextUser + 1), calls[g].email, "admin", calls[g].pw)}
            /\ tokens' = tokens \cup {[userID |-> UserIdOf(nextUser + 1), role |-> ""]}
            /\ Respond("Register", Nil, 201, UserIdOf(nextUser + 1))
    /\ calls' = [calls EXCEPT ![g] = Idle]
    /\ UNCHANGED <<isPostgres, tablesExist, roleCols, theoryCols, categories, patterns,
                   problems, solutions, topics, proc, nextId, now, conv>>

\* UpdateProblem with one solution in its payload, up to the SELECT of the
\* loop: the UPDATE of the problems row, then the lookup of the pair; when the
\* pair has a row the UPDATE of that row follows and the handler answers
UpdateProblemSelect(g, tok, id, d, sol) ==
    /\ Admitted(tok)
    /\ calls[g] = Idle
    /\ IF isDemoUser(tok)
       THEN Forbidden("UpdateProblem", tok, id)
       ELSE /\ Prepared(12) /\ Prepared(2) /\ Prepared(4)
            /\ \E u0 \in Clock(now) : \E u \in Clock(u0) :
                 /\ problems' = {IF p.id = id THEN [p EXCEPT !.data = d, !.updated_at = u0] ELSE p
                                 : p \in problems}
                 /\ now' = u
                 /\ LET existing == SelectSolution(solutions, id, sol.language) IN
                    IF existing = {}
                    THEN /\ calls' = [calls EXCEPT ![g] =
                                        [op |-> "UpdateProblem", caller |-> tok.userID, id |-> id,
                                         sol |-> sol, updatedAt |-> u]]
                         /\ UNCHANGED <<solutions, resp>>
                    ELSE /\ solutions' = UpdateSolution(solutions, id, sol.language, sol.code, u)
                         /\ resp' = [op |-> "UpdateProblem", caller |-> tok.userID, status |-> 200,
                                     id |-> id, replaced |-> {s.id : s \in existing}]
                         /\ UNCHANGED calls
            /\ UNCHANGED <<isPostgres, tablesExist, roleCols, theoryCols, users, categories,
                           patterns, topics, proc, nextId, nextUser, tokens, conv>>

\* UpdateProblem from generateID() on: INSERT INTO solutions, stopped by
\* UNIQUE(problem_id, language) and, where enforced, by the foreign key
UpdateProblemInsert(g) ==
    /\ Alive /\ ConnFree
    /\ calls[g].op = "UpdateProblem"
    /\ Prepared(6)
    /\ nextId < MaxIds + MaxCalls
    /\ nextId' = nextId + 1
    /\ LET id == calls[g].id  sol == calls[g].sol IN
       \E c \in Clock(now) :
         /\ now' = c
         /\ IF \/ SelectSolution(solutions, id, sol.language) # {}
               \/ (FKEnforced /\ ~\E p \in problems : p.id = id)
            THEN /\ Respond("UpdateProblem", calls[g].caller, 500, id)
                 /\ UNCHANGED solutions
            ELSE /\ solutions' = solutions \cup
                       {[id |-> IdOf(nextId + 1), problem_id |-> id, language |-> sol.language,
                         code |-> sol.code, created_at |-> c, updated_at |-> calls[g].updatedAt]}
                 /\ Respond("UpdateProblem", calls[g].caller, 200, id)
    /\ calls' = [calls EXCEPT ![g] = Idle]
    /\ UNCHANGED <<isPostgres, tablesExist, roleCols, theoryCols, users, categories,
                   patterns, problems, topics, proc, nextUser, tokens, conv>>

\* concurrent Register calls
HandleRace ==
    \/ \E g \in 1..MaxCalls, e \in RaceEmails, pw \in Passwords : RegisterSelect(g, e, pw)
    \/ \E g \in 1..MaxCalls : RegisterInsert(g)

RequestRace == resp = NoResp /\ HandleRace

NextRace == Start \/ RequestRace \/ ResponseSent

SpecRace == InitSteady /\ [][NextRace]_vars

\* ------------------------------------------- Login over stored emails
\* Register stores the email as it was sent, outer spaces and capitals
\* included; Login trims and lower-cases what it is given
LookupEmails == {<<"a">>, <<"A">>, <<" ", "a">>, <<"A", " ">>}
LookupInputs == LookupEmails \cup {<<"d">>, <<" ", "D">>, <<"b">>}

HandleLookup ==
    \/ \E g \in 1..MaxCalls, e \in LookupEmails, pw \in Passwords : RegisterSelect(g, e, pw)
    \/ \E g \in 1..MaxCalls : RegisterInsert(g)
    \/ \E e \in LookupInputs, pw \in Passwords : Login(e, pw)

RequestLookup == resp = NoResp /\ HandleLookup

NextLookup == Start \/ RequestLookup \/ ResponseSent

SpecLookup == InitSteady /\ [][NextLookup]_vars

\* concurrent UpdateProblem calls of one registered caller, on the problems
\* the caller has created
HandleUpsert ==
    \/ \E e \in RegEmails, pw \in Passwords : Register(e, pw)
    \/ \E g \in 1..MaxCalls : UpdateProblemInsert(g)
    \/ \E tok \in tokens :
        \/ \E d \in Data : CreateCategory(tok, d)
        \/ \E id \in CategoryArgs, d \in Data, th \in Theories : CreatePattern(tok, id, d, th)
        \/ \E id \in PatternArgs, d \in Data : CreateProblem(tok, id, d, <<>>)
        \/ \E g \in 1..MaxCalls, id \in {p.id : p \in problems}, d \in Data,
              sol \in [language : Languages, code : {"c1"}] :
              UpdateProblemSelect(g, tok, id, d, sol)

RequestUpsert == resp = NoResp /\ HandleUpsert

NextUpsert == Start \/ RequestUpsert \/ ResponseSent

SpecUpsert == InitSteady /\ [][NextUpsert]_vars

\* ------------------------------------------- payloads with two solutions
\* the solutions lists of two entries, the two in the same language included
TwoSolutions == [1..2 -> [language : Languages, code : {"c1"}]]

HandlePayload ==
    \/ \E e \in RegEmails, pw \in Passwords : Register(e, pw)
    \/ \E tok \in tokens :
        \/ \E d \in Data : CreateCategory(tok, d)
        \/ \E id \in CategoryArgs, d \in Data, th \in Theories : CreatePattern(tok, id, d, th)
        \/ \E id \in PatternArgs, d \in Data, payload \in TwoSolutions \cup {<<>>} :
              CreateProblem(tok, id, d, payload)
        \/ \E id \in ProblemArgs, d \in Data, payload \in SolPayloads({"c1"}) :
              UpdateProblem(tok, id, d, payload)

RequestPayload == resp = NoResp /\ HandlePayload

NextPayload == Start \/ RequestPayload \/ ResponseSent

SpecPayload == InitSteady /\ [][NextPayload]_vars

\* ------------------------------------------------- clearing the store
HandleClear ==
    \/ \E e \in RegEmails, pw \in Passwords : Register(e, pw)
    \/ \E e \in LoginEmails, pw \in Passwords \cup {DemoPassword} : Login(e, pw)
    \/ \E tok \in tokens :
        \/ \E d \in Data : CreateCategory(tok, d)
        \/ \E id \in CategoryArgs, d \in Data, th \in Theories : CreatePattern(tok, id, d, th)
        \/ \E id \in PatternArgs, d \in Data, payload \in SolPayloads({"c1"}) :
              CreateProblem(tok, id, d, payload)
        \/ ClearAllData(tok)
        \/ \E k \in 1..Len(ClearTables) : ClearAllDataFails(tok, k)

RequestClear == resp = NoResp /\ HandleClear

NextClear == Start \/ RequestClear \/ ResponseSent

SpecClear == InitSteady /\ [][NextClear]_vars

\* ------------------------------------------------ requests and the pool
\* Behaviours in which the goroutines are scheduled fairly: the initialization
\* goes on while it can take a step, a handler that can answer does, and a
\* response that has been written is sent.
HandleLive ==
    \/ \E e \in RegEmails, pw \in Passwords : Register(e, pw)
    \/ \E tok \in tokens :
        \/ \E d \in Data : CreateCategory(tok, d)
        \/ \E id \in CategoryArgs, d \in Data, th \in Theories : CreatePattern(tok, id, d, th)
        \/ \E id \in PatternArgs, d \in Data, payload \in SolPayloads({"c1"}) :
              CreateProblem(tok, id, d, payload)
        \/ \E id \in ProblemArgs : GetProblem(tok, id)
        \/ \E id \in PatternArgs : GetProblems(tok, id)

RequestLive == resp = NoResp /\ HandleLive

NextLive == Start \/ RequestLive \/ ResponseSent

SpecLive == InitSteady /\ [][NextLive]_vars /\ WF_vars(Start) /\ WF_vars(ResponseSent)

\* ======================================================================
\* a handler (or the middleware in front of it) answers a request in this step
Answers(op) == resp = NoResp /\ resp'.op = op

MutatingOps == {"CreateCategory", "UpdateCategory", "DeleteCategory",
                "CreatePattern", "UpdatePattern", "UpdatePatternTheory", "DeletePattern",
                "CreateProblem", "UpdateProblem", "DeleteProblem",
                "FetchAllExternalData", "ClearAllData"}

\* C1: on either engine, when DeleteCategory(c) answers success for a category
\* c of the store, the store
\* holds no pattern of c, none of the problems of those patterns and none of
\* the solutions of those problems any more, and GetProblem answers not-found
\* for every such problem.
C1_CascadeDelete ==
    [][(/\ Answers("DeleteCategory") /\ resp'.status = 200
        /\ \E c \in categories : c.id = resp'.id) =>
          LET c    == resp'.id
              pats == ChildPatterns({c})
              prbs == ChildProblems(pats)
              sols == ChildSolutions(prbs)
          IN  /\ {p \in patterns' : p.category_id = c} = {}
              /\ problems' \cap prbs = {}
              /\ solutions' \cap sols = {}
              /\ \A p \in prbs : GetProblemResult(p.id)'.status = 404]_vars

\* DeleteCategory has answered success on the embedded engine and a pattern of
\* the deleted category, with a problem under it, is still in the store
C1_Orphans ==
    /\ ~isPostgres
    /\ resp.op = "DeleteCategory" /\ resp.status = 200
    /\ ~\E c \in categories : c.id = resp.id
    /\ \E p \in patterns : /\ p.category_id = resp.id
                            /\ \E q \in problems : /\ q.pattern_id = p.id
                                                    /\ GetProblemResult(q.id).status = 200

\* C2: on either engine, a mutating operation called with the token Login
\* issued to the demo user is answered with forbidden (403).
C2_DemoForbidden ==
    (resp.caller = DemoUserID /\ resp.op \in MutatingOps) => resp.status = 403

\* the demo user's token has deleted a category on the client/server engine
C2_DemoWrites ==
    /\ isPostgres
    /\ \E u \in users : u.id = DemoUserID /\ u.role = "demo"
    /\ resp.caller = DemoUserID
    /\ resp.op = "DeleteCategory" /\ resp.status = 200
    /\ resp.id # NoSuchId

\* C3: a mutating call answered with forbidden leaves every table unchanged;
\* in particular GetProblem answers the same for every problem as before.
C3_ForbiddenChangesNothing ==
    [][(resp = NoResp /\ resp'.status = 403) =>
          /\ store' = store
          /\ \A id \in ProblemArgs : GetProblemResult(id)' = GetProblemResult(id)]_vars

\* the demo caller's DeleteProblem has been answered with forbidden, and the
\* problem is in the store with a solution
C3_Witness ==
    /\ resp.op = "DeleteProblem" /\ resp.status = 403 /\ resp.caller = DemoUserID
    /\ GetProblemResult(resp.id).status = 200
    /\ GetProblemResult(resp.id).body.solutions # {}

\* what the loop of UpdateProblem can leave, for every problem id and payload
\* a client can send in the current state: <<id, payload, u, st>>
UpsertOutcomes ==
    {<<id, payload, u, st>> \in
        UNION {UNION {UNION {{<<id, payload, u, st>> :
                               st \in UpsertSolutions(id, \E p \in problems : p.id = id,
                                                      payload, UpsertStart(u))}
                             : u \in Clock(now)}
                      : payload \in SolPayloads(Codes)}
               : id \in ProblemArgs} : TRUE}

\* C4: the store holds at most one solution per (problem_id, language); when
\* UpdateProblem saves a solution for a pair that has a row, the pair still has
\* exactly one row, with the same id and created_at, and that row's code is
\* the payload's and its updated_at a clock reading of this call.
C4_OneRowPerPair ==
    /\ \A s, t \in solutions :
          (s.problem_id = t.problem_id /\ s.language = t.language) => s = t
    /\ \A o \in UpsertOutcomes :
          LET id == o[1]  payload == o[2]  u == o[3]  st == o[4] IN
          \A s \in {r \in solutions : r.problem_id = id} :
             LET after == {t \in st.sols : t.problem_id = id /\ t.language = s.language}
                 saved == {i \in 1..Len(payload) : payload[i].language = s.language}
             IN  /\ Cardinality(after) = 1
                 /\ \A t \in after :
                       /\ t.id = s.id
                       /\ t.created_at = s.created_at
                       /\ (saved # {} /\ st.ok) =>
                             LET last == CHOOSE i \in saved : \A j \in saved : j <= i IN
                             /\ t.code = payload[last].code
                             /\ t.updated_at >= u /\ t.updated_at <= st.now

\* UpdateProblem has rewritten an existing solution in place: one row for the
\* pair, the new code, an updated_at later than its created_at
C4_Witness ==
    /\ resp.op = "UpdateProblem" /\ resp.status = 200
    /\ \E s \in solutions :
          /\ s.id \in resp.replaced /\ s.problem_id = resp.id
          /\ s.code = "c2" /\ s.updated_at > s.created_at
          /\ Cardinality({t \in solutions : t.problem_id = resp.id /\ t.language = s.language}) = 1

\* C5: UpdateProblem leaves every solution whose language is absent from the
\* payload, and every solution of another problem, exactly as it was, and no
\* solution row disappears.
C5_AbsentLanguagesUntouched ==
    \A o \in UpsertOutcomes :
       LET id == o[1]  payload == o[2]  st == o[4] IN
       /\ \A s \in solutions :
             (s.problem_id # id \/ \A i \in 1..Len(payload) : payload[i].language # s.language)
                => s \in st.sols
       /\ {s.id : s \in solutions} \subseteq {t.id : t \in st.sols}

\* UpdateProblem has rewritten the cpp solution of a problem that also has a
\* go solution, which still carries its earlier updated_at
C5_Witness ==
    /\ resp.op = "UpdateProblem" /\ resp.status = 200
    /\ \E s, t \in solutions :
          /\ s.problem_id = resp.id /\ t.problem_id = resp.id
          /\ t.id \in resp.replaced /\ t.language = "cpp" /\ t.updated_at = MaxTime
          /\ s.id \notin resp.replaced /\ s.language = "go" /\ s.updated_at < MaxTime

\* C6: on either engine, every run of InitSchema followed by migrate against
\* the same store (the first and the one after a restart) goes on to return,
\* and after it users has exactly one role column and patterns exactly one
\* theory column.
C6_CreateMigrateTwice ==
    /\ pc = "MigrateTheory" => ENABLED MigrateTheory
    /\ pc \in {"CreateDemoUser", "SeedLearningData", "Publish", "Ready"} =>
          roleCols = 1 /\ theoryCols = 1

\* NewDatabase has returned and main has published the handle
FullyInitialized ==
    /\ pc = "Ready" /\ dbReady /\ handlersDB
    /\ tablesExist /\ roleCols = 1 /\ theoryCols = 1
    /\ \E u \in users : u.email = DemoEmail

\* C7: a request to login, register or a protected route that is answered
\* before initialization has completed gets 503 and changes nothing (no
\* handler, no auth guard); a handler or the auth guard runs only once
\* NewDatabase has returned and the handle is published; and the gate, once
\* open, stays open for as long as the process runs.
C7_ReadinessGate ==
    [][/\ (resp = NoResp /\ resp' # NoResp /\ resp'.op # "OPTIONS" /\ ~checkDBReady) =>
            (resp'.status = 503 /\ store' = store /\ tokens' = tokens /\ leaked' = leaked)
       /\ (resp = NoResp /\ resp' # NoResp /\ resp'.op # "OPTIONS" /\ resp'.status # 503) =>
            FullyInitialized
       /\ leaked' > leaked => FullyInitialized
       /\ (checkDBReady /\ ~checkDBReady') => restarts' = restarts + 1]_vars

\* a login has been answered with 503 while migrate was still running
C7_Witness ==
    /\ resp.op = "Login" /\ resp.status = 503
    /\ pc = "MigrateTheory" /\ ~dbReady /\ restarts = 0

\* C8: on the embedded engine, migrate does not issue its second query while
\* the result set of its first is still open.
C8_NoQueryWhileRowsOpen ==
    ~isPostgres => ~(pc = "MigrateTheory" /\ openRows > 0)

\* the embedded engine's migrate waits for a connection its own open result
\* set holds: both columns exist, and the gate is closed
C8_Stuck ==
    /\ ~isPostgres
    /\ pc = "MigrateTheory" /\ openRows = SQLiteMaxOpenConns
    /\ roleCols = 1 /\ theoryCols = 1
    /\ ~ENABLED MigrateTheory
    /\ ~dbReady

\* ======================================================================
\* C9
\* the number of '?' characters among the first i characters of q
MarkersUpTo(q, i) == Cardinality({j \in 1..i : q[j] = "?"})

RECURSIVE Flatten(_)
Flatten(ss) == IF ss = <<>> THEN <<>> ELSE Head(ss) \o Flatten(Tail(ss))

\* q with its k-th '?' replaced by "$k", every other character kept in place
Positional(q) ==
    Flatten([i \in 1..Len(q) |->
               IF q[i] = "?" THEN <<"$">> \o Digits(MarkersUpTo(q, i)) ELSE <<q[i]>>])

DemoUsers == {u \in users : u.role = "demo"}

\* C10: once createDemoUser has returned, users holds exactly one row with
\* role = demo, and every later step (restart, Register, Login, ClearAllData
\* and the other handlers) keeps it so.
C10_OneDemoUser ==
    [][(pc' \in {"SeedLearningData", "Publish", "Ready"} \/ Cardinality(DemoUsers) = 1) =>
          Cardinality(DemoUsers') = 1]_vars

\* after a registration, a restart and a second initialization, ClearAllData
\* has answered success and the demo user is there
C10_Witness ==
    /\ restarts = 1 /\ pc = "Ready"
    /\ nextUser = 1
    /\ resp.op = "ClearAllData" /\ resp.status = 200
    /\ \E t \in tokens : t.userID = DemoUserID
    /\ DemoUsers = {DemoUser}

\* ======================================================================
\* C15: when InitSchema or migrate returns an error the process exits with
\* the gate closed: dbReady and handlers.DB are never set by that process, and
\* from then on it answers no request and touches neither the store nor the
\* tokens (only a new process, started on the same store, goes on).
C15_FatalStartup ==
    [][/\ pc' = "Fatal" => (~dbReady' /\ ~handlersDB')
       /\ (pc = "Fatal" /\ restarts' = restarts) =>
             /\ pc' = "Fatal"
             /\ store' = store /\ tokens' = tokens /\ leaked' = leaked
             /\ resp' \in {resp, NoResp}]_vars

\* InitSchema has failed on a new store: the process has exited, no table
\* exists, and the last request it answered got 503
C15_Witness ==
    /\ pc = "Fatal" /\ ~tablesExist /\ restarts = 0
    /\ ~dbReady /\ ~handlersDB
    /\ resp.op = "Login" /\ resp.status = 503

\* C16: a failure while seeding, of the demo account or of the learning
\* topics, does not end the process: from createDemoUser and from
\* seedLearningData the initialization goes on to publish the handle.
C16_SeedingNotFatal ==
    [][(pc \in {"CreateDemoUser", "SeedLearningData"}) => (pc' # "Fatal")]_vars

\* ======================================================================
\* C11
\* h has the form "Bearer <token>", and the token has a valid HMAC signature
\* under the secret, is unexpired and has a string userID claim
ValidBearer(h) ==
    /\ Len(h) = 2 /\ h[1] = "Bearer"
    /\ h[2].alg = "HS256" /\ h[2].signed /\ ~h[2].expired
    /\ h[2].userID # Nil

ProtectedOps == {"CreateCategory", "UpdateCategory", "DeleteCategory"}

\* C11: a request to a protected route whose Authorization header is not a
\* valid bearer token reaches no handler: once the gate is open it is answered
\* 401 (503 before) and changes nothing; and every answer of a handler
\* behind the guard is to a request that carried a valid bearer token of the
\* caller.
C11_AuthGuard ==
    [][/\ \A h \in Headers :
             (resp = NoResp /\ ApiRequest(h) /\ ~ValidBearer(h)) =>
                /\ resp'.op = "api"
                /\ resp'.status = (IF checkDBReady THEN 401 ELSE 503)
                /\ store' = store /\ tokens' = tokens
                /\ nextId' = nextId /\ leaked' = leaked
       /\ (resp = NoResp /\ resp'.op \in ProtectedOps) =>
             \E h \in Headers : /\ ValidBearer(h) /\ ApiRequest(h)
                                 /\ h[2].userID = resp'.caller]_vars

\* with the gate open, a token issued and a category in the store, the guard
\* has answered a request 401
C11_Witness ==
    /\ checkDBReady /\ tokens # {} /\ categories # {}
    /\ resp.op = "api" /\ resp.status = 401
    /\ \E h \in Headers : /\ Len(h) = 2 /\ h[1] = "Bearer" /\ h[2].signed /\ h[2].expired
                           /\ AuthMiddleware(h) = NoToken

\* ======================================================================
\* C17
\* the rows whose email is the supplied one up to case and outer spaces
Matching(email) == {u \in users : TrimSpace(ToLower(u.email)) = TrimSpace(ToLower(email))}

\* C17: Login answers 200 (and issues a token, for that user) only for a row
\* that matches the supplied email and holds the supplied password; it
\* answers 401, with no token, when no row matches or the password differs;
\* and it answers 500, with no token, when one of its queries fails.
C17_LoginOutcomes ==
    [][/\ \A e \in LoginEmails, pw \in Passwords \cup {DemoPassword} :
             (resp = NoResp /\ checkDBReady /\ Login(e, pw)) =>
                /\ resp'.status \in {200, 401}
                /\ resp'.status = 200 =>
                      /\ \E u \in Matching(e) : u.password = pw /\ u.id = resp'.id
                      /\ tokens' = tokens \cup {[userID |-> resp'.id, role |-> ""]}
                /\ resp'.status = 401 =>
                      /\ tokens' = tokens
                      /\ Matching(e) = {} \/ \E u \in Matching(e) : u.password # pw
                /\ Matching(e) = {} => resp'.status = 401
       /\ \A e \in LoginEmails, tier \in 1..3 :
             (resp = NoResp /\ LoginQueryError(e, tier)) =>
                (resp'.status = 500 /\ tokens' = tokens)]_vars

\* ======================================================================
\* C19
\* the number of markers of each parameterized statement of a handler
HandlerParams(r) ==
    IF r.status \in {503, 403} THEN {}
    ELSE CASE r.op = "Register"       -> {2, 5}
           [] r.op = "Login"          -> {1}
           [] r.op = "CreateCategory" -> {6}
           [] r.op = "UpdateCategory" -> {5}
           [] r.op = "DeleteCategory" -> {1}
           [] OTHER                   -> {}

\* the parameterized texts sent to the engine for the request that r answers,
\* as they are sent: the role lookup of the guard (every issued token is
\* without a role claim), the lookup of the debug route, and the statements
\* of the handler
Sent(r) ==
    (IF r.caller # Nil THEN {RoleLookup} ELSE {})
      \cup (IF r.op = "DebugUserExists" /\ r.status # 503 THEN {DebugLookup} ELSE {})
      \cup {convertPlaceholders(isPostgres, SQL(n)) : n \in HandlerParams(r)}

\* C19: under IsPostgres no text sent to the engine still holds a '?' marker.
C19_NoMarkerSent ==
    isPostgres => \A text \in Sent(resp) : ~HasMarker(text)

\* on the client/server engine the debug route has sent its lookup with the
\* '?' markers in it and answered 500
C19_Witness ==
    /\ isPostgres /\ checkDBReady
    /\ resp.op = "DebugUserExists" /\ resp.status = 500
    /\ HasMarker(DebugLookup) /\ DebugLookup \in Sent(resp)

\* ======================================================================
\* C20
\* the claims of the tokens that verify under the secret: the issued ones,
\* and tokens for a user of the store that carry a role claim
SignedClaims ==
    tokens \cup {[userID |-> u.id, role |-> r] : u \in users, r \in {"admin", "demo"}}

\* C20: on either engine the guard attaches the role claim when the token has
\* one; otherwise the stored role of the token's user whenever that row
\* exists with a role that is not NULL.
C20_RoleResolution ==
    checkDBReady =>
        \A tok \in SignedClaims :
            /\ tok.role # "" => AuthRole(tok) = tok.role
            /\ tok.role = "" =>
                  \A u \in users :
                     (u.id = tok.userID /\ u.role \notin {Null, NoCol}) => AuthRole(tok) = u.role

\* on the client/server engine the demo user's token, which has no role
\* claim, has been given the role admin and has created a category
C20_Witness ==
    /\ isPostgres
    /\ DemoUser \in users
    /\ [userID |-> DemoUserID, role |-> ""] \in tokens
    /\ AuthRole([userID |-> DemoUserID, role |-> ""]) = "admin"
    /\ resp.op = "CreateCategory" /\ resp.caller = DemoUserID /\ resp.status = 201

\* ======================================================================
\* C12: in every reachable state, whichever copy of the handlers answers and
\* in whatever order the rows come, GetCategories returns each category once
\* with patternCount = the number of patterns rows with that category_id, and
\* GetPatterns returns each pattern of the category once with problemCount =
\* the number of problems rows with that pattern_id; the rows of categories
\* and patterns hold no counter.
C12_DerivedCounts ==
    \A copy \in HandlerCopies :
       /\ \A rows \in GetCategoriesRows(copy) :
             /\ {rows[i].id : i \in DOMAIN rows} = {c.id : c \in categories}
             /\ Len(rows) = Cardinality(categories)
             /\ \A i \in DOMAIN rows :
                   rows[i].count = Cardinality({p \in patterns : p.category_id = rows[i].id})
       /\ \A categoryID \in CategoryArgs : \A rows \in GetPatternsRows(categoryID, copy) :
             /\ {rows[i].id : i \in DOMAIN rows} =
                   {p.id : p \in {q \in patterns : q.category_id = categoryID}}
             /\ \A i \in DOMAIN rows :
                   rows[i].count = Cardinality({q \in problems : q.pattern_id = rows[i].id})
       /\ \A c \in categories : DOMAIN c = {"id", "data", "created_at", "updated_at"}
       /\ \A q \in patterns :
             DOMAIN q = {"id", "category_id", "data", "theory", "created_at", "updated_at"}

\* CreateProblem has just answered 201 for the first problem of a pattern:
\* the pattern is listed with problemCount 1, and a pattern without problems
\* would be listed with 0 (the category of the pattern has patternCount 1)
C12_Witness ==
    /\ resp.op = "CreateProblem" /\ resp.status = 201
    /\ \E q \in patterns : \E rows \in GetPatternsRows(q.category_id, "main.go") :
          /\ \E i \in DOMAIN rows : rows[i].id = q.id /\ rows[i].count = 1
          /\ \E p \in problems : p.id = resp.id /\ p.pattern_id = q.id
    /\ \E rows \in GetCategoriesRows("main.go") : \E i \in DOMAIN rows : rows[i].count = 1

\* ======================================================================
\* C13: GetProblem(id) answers not-found exactly when no problems row has
\* that id, answers the row with all the solutions of the problem when the
\* row exists, and answers 500, not 404, when a query fails.
C13_GetProblemOutcomes ==
    [][/\ \A id \in ProblemArgs :
             LET rows == {p \in problems : p.id = id}
                 res  == GetProblemResult(id)
             IN  /\ res.status = 404 <=> rows = {}
                 /\ rows # {} =>
                       /\ res.status = 200
                       /\ res.body.problem \in rows
                       /\ res.body.solutions = {s \in solutions : s.problem_id = id}
       /\ \A tok \in tokens, id \in ProblemArgs :
             /\ (resp = NoResp /\ GetProblem(tok, id)) =>
                   (resp'.status = GetProblemResult(id).status /\ store' = store)
             /\ (resp = NoResp /\ GetProblemQueryError(tok, id)) =>
                   (resp'.status = 500 /\ store' = store)]_vars

\* GetProblem has answered 404 for an id that names no row while the store
\* holds a problem with a solution, for which it answers 200
C13_Witness ==
    /\ resp.op = "GetProblem" /\ resp.status = 404
    /\ ~\E p \in problems : p.id = resp.id
    /\ \E p \in problems : /\ GetProblemResult(p.id).status = 200
                            /\ GetProblemResult(p.id).body.solutions # {}

\* ======================================================================
\* C14
\* the table an update handler writes
Target(op, cats, pats, prbs) ==
    CASE op = "UpdateCategory" -> cats
      [] op \in {"UpdatePattern", "UpdatePatternTheory"} -> pats
      [] op = "UpdateProblem" -> prbs

\* C14: whatever id and createdAt the body carries, an update handler that
\* answers success leaves the ids of its table and the created_at of every
\* row as they were, changes no row but the targeted one, and gives that row
\* an updated_at read from the clock during the call.
C14_UpdateKeepsIdentity ==
    [][\A op \in {"UpdateCategory", "UpdatePattern", "UpdatePatternTheory", "UpdateProblem"} :
          (Answers(op) /\ resp'.status = 200) =>
             LET before == Target(op, categories, patterns, problems)
                 after  == Target(op, categories', patterns', problems')
             IN  /\ {r.id : r \in after} = {r.id : r \in before}
                 /\ Cardinality(after) = Cardinality(before)
                 /\ \A r \in before : \E t \in after :
                       /\ t.id = r.id /\ t.created_at = r.created_at
                       /\ r.id # resp'.id => t = r
                       /\ r.id = resp'.id =>
                             (t.updated_at >= now /\ t.updated_at <= now')]_vars

\* UpdateCategory has answered success at a later clock reading than the
\* creation of its category: created_at is the old one, updated_at the new
C14_Witness ==
    /\ resp.op = "UpdateCategory" /\ resp.status = 200
    /\ \E c \in categories :
          c.id = resp.id /\ c.created_at = 0 /\ c.updated_at = MaxTime /\ now = MaxTime

\* ======================================================================
\* the rows are in the order of their creation, oldest first
OldestFirst(rows) ==
    \A i, j \in DOMAIN rows : i < j => rows[i].created_at <= rows[j].created_at

\* C18: whatever copy of the handlers answers, GetCategories, GetPatterns and
\* GetProblems return their rows oldest first.
C18_OldestFirst ==
    \A copy \in HandlerCopies :
       /\ \A rows \in GetCategoriesRows(copy) : OldestFirst(rows)
       /\ \A id \in CategoryArgs : \A rows \in GetPatternsRows(id, copy) : OldestFirst(rows)
       /\ \A id \in PatternArgs : \A rows \in GetProblemsRows(id, copy) : OldestFirst(rows)

\* GetCategories has answered while the store holds two categories created
\* at different clock readings: the copy in handlers.go lists the newer first
C18_NewestFirst ==
    /\ resp.op = "GetCategories" /\ resp.status = 200
    /\ \E rows \in GetCategoriesRows("handlers.go") :
          Len(rows) = 2 /\ rows[1].created_at > rows[2].created_at
    /\ \A rows \in GetCategoriesRows("main.go") : OldestFirst(rows)

\* ======================================================================
\* C21: on the embedded engine a request that holds the only connection of
\* the pool goes on to answer and to give the connection back, GetProblems
\* for a pattern that has a problem included.
C21_EveryRequestAnswered ==
    (~isPostgres /\ leaked > 0) ~> (leaked = 0)

\* GetProblems has been called on the embedded engine for a pattern with a
\* problem: no response, the only connection is held, and no handler can run
C21_Hung ==
    /\ ~isPostgres /\ pc = "Ready" /\ checkDBReady
    /\ leaked = SQLiteMaxOpenConns /\ resp = NoResp
    /\ problems # {}
    /\ ~ENABLED RequestLive

\* ======================================================================
\* C22: the step of migrate that looks at users leaves one role column and,
\* when the column was missing, gives every row that was there role admin,
\* and otherwise leaves the rows as they were; the step that looks at
\* patterns and returns does the same for theory with the empty string; the
\* two steps change nothing else, and when migrate has returned both columns
\* exist and no row holds NULL in them.
C22_MigrateBackfills ==
    [][/\ (pc = "MigrateRole" /\ pc' = "MigrateTheory") =>
             /\ roleCols' = 1
             /\ users' = {[u EXCEPT !.role = IF roleCols = 0 THEN "admin" ELSE @] : u \in users}
             /\ {u.id : u \in users'} = {u.id : u \in users}
             /\ <<tablesExist, theoryCols, categories, patterns, problems, solutions, topics>>' =
                   <<tablesExist, theoryCols, categories, patterns, problems, solutions, topics>>
       /\ (pc = "MigrateTheory" /\ pc' = "CreateDemoUser") =>
             /\ theoryCols' = 1
             /\ patterns' = {[p EXCEPT !.theory = IF theoryCols = 0 THEN "" ELSE @] : p \in patterns}
             /\ {p.id : p \in patterns'} = {p.id : p \in patterns}
             /\ <<tablesExist, roleCols, users, categories, problems, solutions, topics>>' =
                   <<tablesExist, roleCols, users, categories, problems, solutions, topics>>
       /\ pc' = "CreateDemoUser" =>
             /\ roleCols' = 1 /\ theoryCols' = 1
             /\ \A u \in users' : u.role \notin {Null, NoCol}
             /\ \A p \in patterns' : p.theory \notin {Null, NoCol}]_vars

\* migrate has returned, for the first time, on a store that lacked both
\* columns: the user of the earlier version has role admin and its pattern
\* the empty theory
C22_Witness ==
    /\ pc = "CreateDemoUser" /\ restarts = 0
    /\ roleCols = 1 /\ theoryCols = 1
    /\ users = {[LegacyUser EXCEPT !.role = "admin"]}
    /\ patterns = {[LegacyPattern EXCEPT !.theory = ""]}
    /\ categories = {LegacyCategory}

\* ======================================================================
\* the rows of the tables that carry created_at and updated_at
Stamped(cats, pats, prbs, sols) == cats \cup pats \cup prbs \cup sols

\* C23: a row that CreateCategory, CreatePattern or CreateProblem has just
\* stored, and each solution stored with the problem, has created_at =
\* updated_at; and after every step each row has updated_at >= created_at.
C23_Timestamps ==
    [][/\ \A op \in {"CreateCategory", "CreatePattern", "CreateProblem"} :
             (Answers(op) /\ resp'.status = 201) =>
                \A r \in Stamped(categories', patterns', problems', solutions')
                           \ Stamped(categories, patterns, problems, solutions) :
                   r.created_at = r.updated_at
       /\ \A r \in Stamped(categories', patterns', problems', solutions') :
             r.updated_at >= r.created_at]_vars

\* UpdateProblem has inserted a solution for a new language: the row's
\* updated_at was read from the clock before its created_at and is earlier
C23_UpdatedBeforeCreated ==
    /\ resp.op = "UpdateProblem" /\ resp.status = 200
    /\ \E p \in problems : p.id = resp.id /\ p.updated_at >= p.created_at
    /\ \E s \in solutions :
          /\ s.problem_id = resp.id /\ s.id \notin resp.replaced
          /\ s.updated_at < s.created_at

\* ======================================================================
\* the users rows with the demo address
DemoEmailUsers(rows) == {u \in rows : u.email = DemoEmail}

\* C24: on every boot, the first and the ones after a restart, createDemoUser
\* can return without error and leaves exactly one user with the demo
\* address, seedLearningData leaves exactly one learning_topics row for each
\* seeded slug, and both leave the rows they find as they were (no row is
\* removed or rewritten, and nothing is inserted for a key that is there).
C24_SeedingIdempotent ==
    [][/\ pc = "CreateDemoUser" => ENABLED createDemoUser
       /\ createDemoUser =>
             /\ Cardinality(DemoEmailUsers(users')) = 1
             /\ users \subseteq users'
             /\ DemoEmailUsers(users) # {} => users' = users
       /\ pc = "SeedLearningData" => ENABLED seedLearningData
       /\ seedLearningData =>
             /\ \A s \in Range(SeedTopics) : Cardinality({t \in topics' : t.slug = s}) = 1
             /\ topics \subseteq topics'
             /\ (\A s \in Range(SeedTopics) : \E t \in topics : t.slug = s) => topics' = topics
       /\ seedLearningDataFails => topics \subseteq topics'
       /\ (pc \in {"CreateDemoUser", "SeedLearningData"} /\ pc' # pc) =>
             <<tablesExist, roleCols, theoryCols, categories, patterns, problems, solutions>>' =
                <<tablesExist, roleCols, theoryCols, categories, patterns, problems, solutions>>]_vars

\* the second boot has seeded at a later clock reading than the first: one
\* demo user, a registered user, and the topic row of the first boot
C24_Witness ==
    /\ restarts = 1 /\ pc \in {"Publish", "Ready"}
    /\ now = MaxTime
    /\ Cardinality(DemoEmailUsers(users)) = 1 /\ Cardinality(users) > 1
    /\ topics = {TopicRow(SeedTopics[i], 0) : i \in 1..Len(SeedTopics)}

\* ======================================================================
\* C25: no two users rows have emails that are equal when letter case is
\* ignored, whatever the interleaving of the Register calls.
C25_UniqueIgnoringCase ==
    \A u, v \in users : ToLower(u.email) = ToLower(v.email) => u = v

\* two Register calls whose emails differ in case only have both passed
\* their SELECT before either inserted, and both have been answered 201
C25_TwoRows ==
    /\ resp.op = "Register" /\ resp.status = 201
    /\ \E u, v \in users : /\ u.email = <<"a">> /\ v.email = <<"A">>
                            /\ u.role = "admin" /\ v.role = "admin"
    /\ Cardinality(tokens) = 2

\* ======================================================================
\* C26: in every reachable state, on both engines, every pattern names a
\* category of the store, every problem a pattern and every solution a
\* problem.
C26_ReferentialIntegrity ==
    /\ \A p \in patterns : \E c \in categories : c.id = p.category_id
    /\ \A q \in problems : \E p \in patterns : p.id = q.pattern_id
    /\ \A s \in solutions : \E q \in problems : q.id = s.problem_id

\* on the embedded engine CreatePattern has answered 201 under a category id
\* that names no row, and the pattern is in the store
C26_OrphanCreated ==
    /\ ~isPostgres
    /\ resp.op = "CreatePattern" /\ resp.status = 201
    /\ \E p \in patterns : /\ p.id = resp.id /\ p.category_id = NoSuchId
                            /\ ~\E c \in categories : c.id = p.category_id

\* ======================================================================
\* C27: on the client/server engine, whatever the interleaving of the
\* UpdateProblem calls, a call that saves a solution for a problem of the
\* store is not answered with a failure, and the store holds one solutions
\* row for each (problem_id, language) pair.
C27_ConcurrentUpsert ==
    [][(/\ isPostgres
        /\ Answers("UpdateProblem")
        /\ \E p \in problems : p.id = resp'.id) =>
          /\ resp'.status # 500
          /\ \A s, t \in solutions' :
                (s.problem_id = t.problem_id /\ s.language = t.language) => s = t]_vars

\* two UpdateProblem calls looked the same pair up before either inserted:
\* the second INSERT was refused, its call has answered 500, and the pair has
\* the one row of the first call
C27_SecondCallFails ==
    /\ isPostgres
    /\ resp.op = "UpdateProblem" /\ resp.status = 500
    /\ \E p \in problems : p.id = resp.id
    /\ Cardinality({s \in solutions : s.problem_id = resp.id}) = 1
    /\ calls = NoCalls

\* ======================================================================
\* C28: a CreateProblem or UpdateProblem call that is answered with a failure
\* leaves every table as it was before the call.
C28_FailureChangesNothing ==
    [][(/\ resp = NoResp
        /\ resp'.op \in {"CreateProblem", "UpdateProblem"}
        /\ resp'.status = 500) => store' = store]_vars

\* on the client/server engine CreateProblem has answered 500 for a payload
\* with the same language twice: the problem and its first solution are stored
C28_PartialProblem ==
    /\ isPostgres
    /\ resp.op = "CreateProblem" /\ resp.status = 500
    /\ \E p \in problems : p.id = resp.id
    /\ Cardinality({s \in solutions : s.problem_id = resp.id}) = 1
    /\ GetProblemResult(resp.id).status = 200

\* ======================================================================
\* C29
\* C29: Login's lookup finds a row for exactly the supplied emails for which
\* some stored email is the supplied one after trimming and lower-casing
\* both, as the full scan alone would; and every row it can return is such a
\* row.
C29_LookupAsThirdTier ==
    checkDBReady =>
        \A e \in LookupInputs :
            /\ (LoginLookup(e) # {}) <=> (Matching(e) # {})
            /\ LoginLookup(e) \subseteq Matching(e)

\* Login has answered 200 for a row that only the full scan finds (its stored
\* email has an outer space), while a second row matches the same input
C29_Witness ==
    /\ resp.op = "Login" /\ resp.status = 200
    /\ \E u \in users : /\ u.id = resp.id
                        /\ TrimSpace(u.email) # u.email
                        /\ \E v \in Matching(u.email) : v.id # u.id

\* ======================================================================
\* C30
\* C30: a ClearAllData that a caller other than the demo user completes
\* answers 200, leaves solutions, problems, patterns, categories and
\* learning_topics empty and users as it was, so that every user is still
\* found by Login under the stored email; when the DELETE of one table fails
\* the call answers 500, the tables listed before it are empty and users is as
\* it was.
C30_ClearLeavesUsers ==
    [][\A tok \in tokens :
          /\ (resp = NoResp /\ ~isDemoUser(tok) /\ ClearAllData(tok)) =>
                /\ resp'.status = 200
                /\ solutions' = {} /\ problems' = {} /\ patterns' = {}
                /\ categories' = {} /\ topics' = {}
                /\ users' = users
                /\ \A u \in users : u \in (LoginLookup(u.email))'
          /\ \A k \in 1..Len(ClearTables) :
                (resp = NoResp /\ ClearAllDataFails(tok, k)) =>
                   /\ resp'.status = 500
                   /\ k > 1 => solutions' = {}
                   /\ k > 2 => problems' = {}
                   /\ k > 3 => patterns' = {}
                   /\ k > 4 => categories' = {}
                   /\ users' = users
      ]_vars

\* ClearAllData has answered 200 to a registered user after three content
\* rows had been made, and the demo user and the caller are in users
C30_Witness ==
    /\ resp.op = "ClearAllData" /\ resp.status = 200
    /\ nextId >= 3
    /\ solutions = {} /\ problems = {} /\ patterns = {} /\ categories = {} /\ topics = {}
    /\ \E u \in users : u.id = resp.caller /\ u.role = "admin"
    /\ \E u \in users : u.id = DemoUserID

====
